---- MODULE Spec2Model ----
(***************************************************************************)
(* Model of the Shopee -> Telegram offer bot.                              *)
(*                                                                         *)
(* Strings the code takes apart are sequences of tokens, so that the       *)
(* string operations (cutting a URL at its query, trimming a name,         *)
(* lower-casing) are computed and not assumed:                             *)
(*   - a URL is a sequence of tokens, "?" and "#" being the two separator  *)
(*     characters; the empty sequence is the empty or missing string;      *)
(*   - a product name is a sequence of word tokens and " " tokens;         *)
(*   - a raw price is a record: missing (null/undefined), a text that      *)
(*     Number() turns into NaN, or an optional minus sign and a magnitude. *)
(* The template strings `img::${x}` are tuples <<"img", x, "">>.           *)
(***************************************************************************)
EXTENDS Integers, Sequences, FiniteSets, TLC

VARIABLES
  \* ---- the running process (image-key variant, fetchShopeeOffers.js 1-416)
  sentOffers,   \* the in-memory Set of keys (line 48)
  file,         \* content of sent_offers.json: a set of keys
  pc,           \* per cycle: where its async function is suspended
  kind,         \* per cycle: "auto" (sendOffersToTelegram) or "push" (GET /push)
  batch,        \* per cycle: the list handed to pushOffersToTelegram
  idx,          \* per cycle: position of the for-of loop in batch
  snap,         \* per cycle: the snapshot its pending writeFile carries
  attempts,     \* per cycle: the delivery attempts made, in order
  skipped,      \* per cycle: positions skipped by `continue` (line 337)
  started,      \* number of cycles started so far
  \* ---- what a crash and a restart are judged by
  flushed,      \* keys whose own ledger write (line 340) completed, first lifetime
  unflushed,    \* keys whose own ledger write failed, first lifetime
  lastWrite,    \* the content carried by the last completed write, first lifetime
  restart,      \* "none", or how the restarted process read the file: "read"/"unread"
  \* ---- server.js variant (autoSendOffers.js 53-262)
  timer,        \* position of the app.listen callback and state of the interval
  \* ---- harness for the pure functions
  fn,           \* which function was applied ("none" before)
  inp,          \* its input list
  out           \* its result

vars == <<sentOffers, file, pc, kind, batch, idx, snap, attempts, skipped,
          started, flushed, unflushed, lastWrite, restart, timer, fn, inp, out>>

sysVars == <<sentOffers, file, pc, kind, batch, idx, snap, attempts, skipped,
             started>>

fnVars == <<fn, inp, out>>

histVars == <<flushed, unflushed, lastWrite, restart>>

\* what the actions of the image-key and price-ledger processes leave alone
auxVars == <<fn, inp, out, flushed, unflushed, lastWrite, restart, timer>>

----------------------------------------------------------------------------
(* Bounds *)

\* longest input list given to a pure function
MaxLen == 3

\* number of cycles (startup run, timer ticks, /push requests) in one lifetime
MaxCycles == 2

\* largest price tried, in units of 50
MaxPrice == 3

\* longest sent list found in sent_offers.json by the batch filter
MaxSent == 2

----------------------------------------------------------------------------
(* Sequence helpers *)

Range(s) == {s[i] : i \in 1..Len(s)}

Take(s, n) == SubSeq(s, 1, IF n < Len(s) THEN n ELSE Len(s))

\* Array.prototype.slice(0, n)
slice(s, n) == Take(s, n)

RECURSIVE IndexOf(_, _, _)
\* String.prototype.indexOf from position i; 0 when absent (JS: -1)
IndexOf(s, t, i) ==
  IF i > Len(s) THEN 0
  ELSE IF s[i] = t THEN i
  ELSE IndexOf(s, t, i + 1)

\* all orders of the elements of a list
Perms(s) ==
  {p \in [1..Len(s) -> Range(s)] :
     \E f \in [1..Len(s) -> 1..Len(s)] :
        /\ \A i, j \in 1..Len(s) : i # j => f[i] # f[j]
        /\ \A i \in 1..Len(s) : p[i] = s[f[i]]}

\* number of positions of s holding x
Count(s, x) == Cardinality({i \in 1..Len(s) : s[i] = x})

\* all lists over S of length at most n
SeqsUpTo(S, n) == UNION {[1..k -> S] : k \in 0..n}

----------------------------------------------------------------------------
(* Offers *)

NullPrice == [kind |-> "null", neg |-> FALSE, mag |-> 0]

BadPrice == [kind |-> "bad", neg |-> FALSE, mag |-> 0]

Price(n) == [kind |-> "num", neg |-> n < 0, mag |-> IF n < 0 THEN 0 - n ELSE n]

Offer(name, img, link, shop, coupon, pmin, pmax) ==
  [productName |-> name, imageUrl |-> img, offerLink |-> link, shopId |-> shop,
   couponLink |-> coupon, priceMin |-> pmin, priceMax |-> pmax]

\* a JS string is truthy when it is not empty
Truthy(s) == s # <<>>

----------------------------------------------------------------------------
(* Identity key, image-key variant *)

\* tokens that stand for a scheme and host: a URL starting with one is absolute
Hosts == {"//h1", "//h2"}

\* lines 83-88 (and the two regex replacements of line 706): the text before
\* the first "?" or "#"
cutAtQueryOrHash(u) ==
  LET qIdx == IndexOf(u, "?", 1)
      sharpIdx == IndexOf(u, "#", 1)
      e0 == Len(u) + 1
      e1 == IF qIdx # 0 /\ qIdx < e0 THEN qIdx ELSE e0
      e2 == IF sharpIdx # 0 /\ sharpIdx < e1 THEN sharpIdx ELSE e1
  IN SubSeq(u, 1, e2 - 1)

\* lines 76-90: origin and pathname of an absolute URL (the pathname of a URL
\* with no path is "/"), else the manual cut
normalizeUrlNoQuery(u) ==
  IF u # <<>> /\ Head(u) \in Hosts
  THEN (IF Len(cutAtQueryOrHash(u)) = 1 THEN cutAtQueryOrHash(u) \o <<"/">>
        ELSE cutAtQueryOrHash(u))
  ELSE cutAtQueryOrHash(u)

RECURSIVE TrimLeft(_)
TrimLeft(s) == IF s # <<>> /\ Head(s) = " " THEN TrimLeft(Tail(s)) ELSE s

RECURSIVE TrimRight(_)
TrimRight(s) ==
  IF s # <<>> /\ s[Len(s)] = " " THEN TrimRight(SubSeq(s, 1, Len(s) - 1)) ELSE s

\* String.prototype.trim
trim(s) == TrimRight(TrimLeft(s))

RECURSIVE CollapseSpaces(_)
\* .replace(/\s+/g, " ")
CollapseSpaces(s) ==
  IF Len(s) < 2 THEN s
  ELSE IF s[1] = " " /\ s[2] = " " THEN CollapseSpaces(Tail(s))
  ELSE <<s[1]>> \o CollapseSpaces(Tail(s))

\* faulty variant: the image URL is taken as it comes, query string included
makeUniqueKeyRawImage(offer) ==
  LET img == offer.imageUrl
      link == IF Truthy(offer.offerLink) THEN normalizeUrlNoQuery(offer.offerLink) ELSE <<>>
      name == CollapseSpaces(trim(offer.productName))
  IN IF Truthy(img) THEN <<"img", img, "">>
     ELSE IF Truthy(link) THEN <<"link", link, "">>
     ELSE <<"name", name, offer.shopId>>

makeUniqueKey(offer) ==
  LET img == IF Truthy(offer.imageUrl) THEN normalizeUrlNoQuery(offer.imageUrl) ELSE <<>>
      link == IF Truthy(offer.offerLink) THEN normalizeUrlNoQuery(offer.offerLink) ELSE <<>>
      name == CollapseSpaces(trim(offer.productName))
  IN IF Truthy(img) THEN <<"img", img, "">>
     ELSE IF Truthy(link) THEN <<"link", link, "">>
     ELSE <<"name", name, offer.shopId>>

----------------------------------------------------------------------------
(* Price and discount *)

NoNumber == [ok |-> FALSE, val |-> 0]

\* image-key variant: the regex /[^\d.,]/g also drops a minus sign
parsePrice(val) ==
  IF val.kind = "null" THEN NoNumber
  ELSE IF val.kind = "bad" THEN NoNumber
  ELSE [ok |-> TRUE, val |-> val.mag]

\* the score ((max - min) / max) * 100 as the fraction n/d, kept with d > 0
Score(n, d) == IF d < 0 THEN [n |-> 0 - n, d |-> 0 - d] ELSE [n |-> n, d |-> d]

Zero == Score(0, 1)

computeDiscountScore(offer) ==
  LET max == parsePrice(offer.priceMax)
      min == parsePrice(offer.priceMin)
  IN IF /\ max.ok /\ max.val # 0
        /\ min.ok /\ min.val # 0
        /\ max.val > min.val
     THEN Score((max.val - min.val) * 100, max.val)
     ELSE Zero

\* discountScore > 0
Positive(sc) == sc.n > 0

\* s1 > s2, as numbers
GreaterScore(s1, s2) == s1.n * s2.d > s2.n * s1.d

toLowerCase(t) ==
  CASE t = "Black" -> "black"
    [] t = "Friday" -> "friday"
    [] t = "Sofa" -> "sofa"
    [] t = "Sofa~" -> "sofa~"
    [] OTHER -> t

isBlackFridayOffer(offer) ==
  \E i \in 1..Len(offer.productName) : toLowerCase(offer.productName[i]) = "black"

hasCoupon(off) == Truthy(off.couponLink)

----------------------------------------------------------------------------
(* Prioritization, image-key variant (shuffles inside each tier) *)

RECURSIVE uniqByKey(_, _)

\* faulty variant: the first pass keeps every offer
uniqByKeyKeepAll(offers, seen) == offers

\* the Map of lines 208-213: the first offer of each key, in insertion order
uniqByKey(offers, seen) ==
  IF offers = <<>> THEN <<>>
  ELSE LET key == makeUniqueKey(Head(offers))
       IN IF key \in seen
          THEN uniqByKey(Tail(offers), seen)
          ELSE <<Head(offers)>> \o uniqByKey(Tail(offers), seen \cup {key})

\* the four groups of lines 220-232
isBf(off) == isBlackFridayOffer(off)

isCoupon(off) == ~isBlackFridayOffer(off) /\ hasCoupon(off)

isWithDiscount(off) ==
  ~isBlackFridayOffer(off) /\ ~hasCoupon(off) /\ Positive(computeDiscountScore(off))

isRest(off) ==
  ~isBlackFridayOffer(off) /\ ~hasCoupon(off) /\ ~Positive(computeDiscountScore(off))

RECURSIVE InsertByScore(_, _)
\* x goes after every element whose score is not smaller (a stable sort)
InsertByScore(sorted, x) ==
  IF sorted = <<>> THEN <<x>>
  ELSE IF GreaterScore(computeDiscountScore(x), computeDiscountScore(Head(sorted)))
       THEN <<x>> \o sorted
       ELSE <<Head(sorted)>> \o InsertByScore(Tail(sorted), x)

RECURSIVE SortFrom(_, _)
SortFrom(arr, acc) ==
  IF arr = <<>> THEN acc ELSE SortFrom(Tail(arr), InsertByScore(acc, Head(arr)))

\* arr.sort((a,b) => (b.discountScore||0) - (a.discountScore||0))
sortDescByScore(arr) == SortFrom(arr, <<>>)

\* faulty variant: the swap loop may lose the first element
shuffleArrayLossy(arr) == Perms(arr) \cup {Tail(p) : p \in {q \in Perms(arr) : q # <<>>}}

\* Fisher-Yates: every order of arr is a possible result
shuffleArray(arr) == Perms(arr)

RECURSIVE finalDedupe(_, _)
\* lines 254-262
finalDedupe(ordered, seen) ==
  IF ordered = <<>> THEN <<>>
  ELSE LET k == makeUniqueKey(Head(ordered))
       IN IF k \in seen
          THEN finalDedupe(Tail(ordered), seen)
          ELSE <<Head(ordered)>> \o finalDedupe(Tail(ordered), seen \cup {k})

\* faulty variant: the groups concatenated coupon first
orderedListsCouponFirst(uniq) ==
  LET bf == sortDescByScore(SelectSeq(uniq, isBf))
      coupon == sortDescByScore(SelectSeq(uniq, isCoupon))
      withDiscount == sortDescByScore(SelectSeq(uniq, isWithDiscount))
      rest == SelectSeq(uniq, isRest)
  IN {b \o a \o c \o d : a \in shuffleArray(bf), b \in shuffleArray(coupon),
                         c \in shuffleArray(withDiscount), d \in shuffleArray(rest)}

\* the lists `ordered` (lines 246-251) the random choices can produce
orderedLists(uniq) ==
  LET bf == sortDescByScore(SelectSeq(uniq, isBf))
      coupon == sortDescByScore(SelectSeq(uniq, isCoupon))
      withDiscount == sortDescByScore(SelectSeq(uniq, isWithDiscount))
      rest == SelectSeq(uniq, isRest)
  IN {a \o b \o c \o d : a \in shuffleArray(bf), b \in shuffleArray(coupon),
                         c \in shuffleArray(withDiscount), d \in shuffleArray(rest)}

\* faulty variant: neither dedupe pass
prioritizeOffersNoDedupe(offers) == orderedLists(offers)

\* faulty variant: the last group is left out of `ordered`
prioritizeOffersNoRest(offers) ==
  {finalDedupe(SelectSeq(ordered, LAMBDA o : ~isRest(o)), {}) :
     ordered \in orderedLists(uniqByKey(offers, {}))}

\* every list prioritizeOffers can return for this input
prioritizeOffers(offers) ==
  {finalDedupe(ordered, {}) : ordered \in orderedLists(uniqByKey(offers, {}))}

----------------------------------------------------------------------------
(* Prioritization, price-ledger variant (lines 498-645): no shuffle *)

\* the regex /[^\d,.-]/g keeps a minus sign
parsePrice2(val) ==
  IF val.kind = "null" THEN NoNumber
  ELSE IF val.kind = "bad" THEN NoNumber
  ELSE [ok |-> TRUE, val |-> IF val.neg THEN 0 - val.mag ELSE val.mag]

computeDiscountScore2(offer) ==
  LET max == parsePrice2(offer.priceMax)
      min == parsePrice2(offer.priceMin)
  IN IF /\ max.ok /\ max.val # 0
        /\ min.ok /\ min.val # 0
        /\ max.val > min.val
     THEN Score((max.val - min.val) * 100, max.val)
     ELSE Zero

\* `${off.offerLink || off.imageUrl || off.productName}::${off.shopId || ""}`
rawKey(off) ==
  <<"raw",
    IF Truthy(off.offerLink) THEN off.offerLink
    ELSE IF Truthy(off.imageUrl) THEN off.imageUrl
    ELSE off.productName,
    off.shopId>>

RECURSIVE uniqByRawKey(_, _)

\* faulty variant: a later offer of a key replaces the earlier one
uniqByRawKeyLastWins(offers, seen) ==
  IF offers = <<>> THEN <<>>
  ELSE IF \E i \in 2..Len(offers) : rawKey(offers[i]) = rawKey(Head(offers))
       THEN uniqByRawKey(Tail(offers), seen)
       ELSE <<Head(offers)>> \o uniqByRawKey(Tail(offers), seen)

\* lines 596-601
uniqByRawKey(offers, seen) ==
  IF offers = <<>> THEN <<>>
  ELSE LET key == rawKey(Head(offers))
       IN IF key \in seen
          THEN uniqByRawKey(Tail(offers), seen)
          ELSE <<Head(offers)>> \o uniqByRawKey(Tail(offers), seen \cup {key})

isWithDiscount2(off) ==
  ~isBlackFridayOffer(off) /\ ~hasCoupon(off) /\ Positive(computeDiscountScore2(off))

isRest2(off) ==
  ~isBlackFridayOffer(off) /\ ~hasCoupon(off) /\ ~Positive(computeDiscountScore2(off))

RECURSIVE InsertByScore2(_, _)

\* faulty variant: x goes before the elements of equal score
InsertByScore2Unstable(sorted, x) ==
  IF sorted = <<>> THEN <<x>>
  ELSE IF ~GreaterScore(computeDiscountScore2(Head(sorted)), computeDiscountScore2(x))
       THEN <<x>> \o sorted
       ELSE <<Head(sorted)>> \o InsertByScore2(Tail(sorted), x)

\* x goes after every element whose score is not smaller (a stable sort)
InsertByScore2(sorted, x) ==
  IF sorted = <<>> THEN <<x>>
  ELSE IF GreaterScore(computeDiscountScore2(x), computeDiscountScore2(Head(sorted)))
       THEN <<x>> \o sorted
       ELSE <<Head(sorted)>> \o InsertByScore2(Tail(sorted), x)

RECURSIVE SortFrom2(_, _)
SortFrom2(arr, acc) ==
  IF arr = <<>> THEN acc ELSE SortFrom2(Tail(arr), InsertByScore2(acc, Head(arr)))

\* line 622: a stable sort, descending by discountScore
sortDesc(arr) == SortFrom2(arr, <<>>)

\* lines 628-633
ordered2(uniq) ==
  sortDesc(SelectSeq(uniq, isBf)) \o sortDesc(SelectSeq(uniq, isCoupon))
    \o sortDesc(SelectSeq(uniq, isWithDiscount2)) \o SelectSeq(uniq, isRest2)

RECURSIVE finalDedupe2(_, _)
\* lines 635-643
finalDedupe2(ordered, seen) ==
  IF ordered = <<>> THEN <<>>
  ELSE LET k == rawKey(Head(ordered))
       IN IF k \in seen
          THEN finalDedupe2(Tail(ordered), seen)
          ELSE <<Head(ordered)>> \o finalDedupe2(Tail(ordered), seen \cup {k})

prioritizeOffers2(offers) == finalDedupe2(ordered2(uniqByRawKey(offers, {})), {})

----------------------------------------------------------------------------
(* The offers the checks draw from *)

BFName == <<"Black", " ", "Friday", " ", "Sofa">>

SofaName == <<"Sofa">>

OfferPool ==
  { Offer(BFName,   <<"a">>,           <<"l1">>,      "s1", <<>>,     NullPrice,  NullPrice),
    Offer(SofaName, <<"b">>,           <<"l2">>,      "s1", <<"cp">>, Price(90),  Price(100)),
    Offer(SofaName, <<"c">>,           <<"l3">>,      "s2", <<>>,     Price(20),  Price(100)),
    Offer(SofaName, <<"//h1", "d">>,   <<"l4">>,      "s2", <<>>,     NullPrice,  NullPrice),
    Offer(SofaName, <<"a", "?", "x">>, <<"l5">>,      "s1", <<"cp">>, Price(50),  Price(100)),
    Offer(SofaName, <<>>,              <<"l6", "#", "f">>, "s1", <<>>, Price(50), Price(100)),
    Offer(<<" ", "Sofa", " ", " ", "x", " ">>, <<>>, <<>>, "", <<>>,  BadPrice,   Price(100)),
    Offer(BFName,   <<"e">>,           <<>>,          "",   <<"cp">>, Price(50),  Price(100)),
    Offer(SofaName, <<"?", "x">>,      <<"l7">>,      "s1", <<"cp">>, Price(50),  Price(100)),
    Offer(SofaName, <<"#", "f">>,      <<"l8">>,      "s2", <<>>,     NullPrice,  NullPrice),
    Offer(<<>>,     <<>>,              <<>>,          "",   <<>>,     NullPrice,  NullPrice),
    Offer(SofaName, <<"f">>,           <<"l3">>,      "s2", <<>>,     Price(-100), Price(-50)),
    Offer(SofaName, <<"c", "?", "x">>, <<"l3", "?", "x">>, "s2", <<>>, Price(20), Price(100)) }

----------------------------------------------------------------------------
(* Harness of the pure functions: an input list, then one application *)

FnInit ==
  /\ fn = "none"
  /\ inp \in SeqsUpTo(OfferPool, MaxLen)
  /\ out = <<>>

ApplyPrioritize ==
  /\ fn = "none"
  /\ \E r \in prioritizeOffers(inp) : out' = r
  /\ fn' = "prioritizeOffers"
  /\ UNCHANGED inp

\* prioritizeOffers of the image-key variant with its local list `ordered`
\* (lines 246-251) kept next to the list it returns (lines 254-263)
ApplyPrioritizeSteps ==
  /\ fn = "none"
  /\ \E ordered \in orderedLists(uniqByKey(inp, {})) :
       out' = [ordered |-> ordered, final |-> finalDedupe(ordered, {})]
  /\ fn' = "prioritizeOffers steps"
  /\ UNCHANGED inp

ApplyPrioritize2 ==
  /\ fn = "none"
  /\ out' = prioritizeOffers2(inp)
  /\ fn' = "prioritizeOffers2"
  /\ UNCHANGED inp

\* prioritizeOffers (price-ledger variant) applied to its own result; out is
\* the pair of the first and the second result
ApplyPrioritize2Again ==
  /\ fn = "prioritizeOffers2"
  /\ out' = <<out, prioritizeOffers2(out)>>
  /\ fn' = "prioritizeOffers2 twice"
  /\ UNCHANGED inp

\* price texts: missing, not a number, and the multiples of 50 up to MaxPrice
\* times 50, with and without a minus sign
PriceTexts == {NullPrice, BadPrice} \cup {Price(50 * n) : n \in (0 - MaxPrice)..MaxPrice}

\* one offer with any two price texts
ScoreInit ==
  /\ fn = "none"
  /\ inp \in {<<Offer(SofaName, <<"a">>, <<"l1">>, "s1", <<>>, pmin, pmax)>> :
               pmin \in PriceTexts, pmax \in PriceTexts}
  /\ out = <<>>

ApplyScore ==
  /\ fn = "none"
  /\ out' = computeDiscountScore(inp[1])
  /\ fn' = "computeDiscountScore"
  /\ UNCHANGED inp

----------------------------------------------------------------------------
(* The running process, image-key variant *)

\* OFFERS_PER_PUSH (line 42; read from the environment, default 10)
OFFERS_PER_PUSH == 2

Cycles == 1..MaxCycles

\* What the offer source holds for the one keyword "": two pages of results and
\* an empty third page (pagesToCheck = [1, 2, 3]). The third offer carries the
\* image of the first with a tracking query.
SourcePages ==
  << << Offer(BFName,   <<"a">>, <<"l1">>, "s1", <<>>, NullPrice, NullPrice),
        Offer(SofaName, <<"b">>, <<"l2">>, "s1", <<>>, NullPrice, NullPrice) >>,
     << Offer(SofaName, <<"a", "?", "x">>, <<"l3">>, "s1", <<"cp">>, Price(50), Price(100)),
        Offer(SofaName, <<>>, <<"l4", "#", "f">>, "s2", <<>>, Price(100), Price(100)) >>,
     << >> >>

pagesToCheck == 1..3

\* fetchOffersPage: the page's nodes, or [] when the request failed
fetchOffersPage(p, okPages) == IF p \in okPages THEN SourcePages[p] ELSE <<>>

\* fetchOffersAllPages with the pages of okPages answering
fetchOffersAllPages(okPages) ==
  uniqByKey(fetchOffersPage(1, okPages) \o fetchOffersPage(2, okPages)
              \o fetchOffersPage(3, okPages), {})

\* the keywords handed to fetchOffersAllPages (KEYWORDS of the environment)
Keywords == <<"sofa", "tv">>

\* What the source holds per keyword: the first keyword gets SourcePages; the
\* second gets one offer whose image is already known from the first keyword
\* (a fragment apart), new offers, and an empty second page.
SourcePagesOf(kw) ==
  IF kw = Keywords[1] THEN SourcePages
  ELSE << << Offer(SofaName, <<"b", "#", "z">>, <<"l5">>, "s2", <<"cp">>, Price(50), Price(100)),
             Offer(SofaName, <<"f">>, <<"l6">>, "s2", <<>>, NullPrice, NullPrice) >>,
          << >>,
          << Offer(BFName, <<"g">>, <<"l7">>, "s1", <<>>, NullPrice, NullPrice) >> >>

\* lines 164-165: every keyword, and for each the pages 1, 2, 3, in this order
FetchesOf(keywords) ==
  [i \in 1..(Len(keywords) * 3) |-> <<keywords[((i - 1) \div 3) + 1], ((i - 1) % 3) + 1>>]

\* fetchOffersPage(p, kw) when the requests of `failed` fail (network error,
\* timeout, status other than 200): the catch and the else branch leave []
fetchOffersPageOf(kw, p, failed) ==
  IF <<kw, p>> \in failed THEN <<>> ELSE SourcePagesOf(kw)[p]

\* line 169: if (!map.has(key)) map.set(key, off); the Map as its values in
\* insertion order
mapSetIfAbsent(map, off) ==
  IF \E i \in 1..Len(map) : makeUniqueKey(map[i]) = makeUniqueKey(off)
  THEN map ELSE Append(map, off)

RECURSIVE addPageOffers(_, _)
\* lines 167-170
addPageOffers(map, pageOffers) ==
  IF pageOffers = <<>> THEN map
  ELSE addPageOffers(mapSetIfAbsent(map, Head(pageOffers)), Tail(pageOffers))

\* faulty variant: a failed request ends the loops
fetchesAfterAbort(rest, failedNow) == IF failedNow THEN <<>> ELSE rest

\* fetchOffersPage never throws (lines 152-155): the loops of lines 164-165 go
\* on with the fetches that remain
fetchesAfter(rest, failedNow) == rest

RECURSIVE fetchLoop(_, _, _, _)
\* lines 164-172 from the fetch Head(todo) on; `issued` lists the requests made
fetchLoop(todo, failed, map, issued) ==
  IF todo = <<>> THEN [offers |-> map, issued |-> issued]
  ELSE LET kw == Head(todo)[1]
           p == Head(todo)[2]
       IN fetchLoop(fetchesAfter(Tail(todo), Head(todo) \in failed), failed,
                    addPageOffers(map, fetchOffersPageOf(kw, p, failed)),
                    Append(issued, Head(todo)))

\* fetchOffersAllPages(keywords) (lines 159-174) with the requests made
fetchOffersAllPagesOf(keywords, failed) ==
  fetchLoop(FetchesOf(keywords), failed, <<>>, <<>>)

\* fetchOffersAllPages(Keywords) with any set of its requests failing; inp is
\* the list of the failed requests
ApplyFetch ==
  /\ fn = "none" /\ inp = <<>>
  /\ \E failed \in SUBSET Range(FetchesOf(Keywords)) :
       /\ inp' = SelectSeq(FetchesOf(Keywords), LAMBDA f : f \in failed)
       /\ out' = fetchOffersAllPagesOf(Keywords, failed)
  /\ fn' = "fetchOffersAllPages"

\* faulty variant: the key is never added
markSentForgotten(S, key) == S

\* line 339: sentOffers.add(uniqueKey)
markSent(S, key) == S \cup {key}

\* line 64: the text handed to writeFile, the array of the keys now in the Set
snapshotOf(S) == S

\* faulty variant: the mark is rolled back when the send fails
afterSendFailureRollback(S, key) == S \ {key}

\* lines 357-359: the catch block only logs
afterSendFailure(S, key) == S

\* faulty variant: try/catch around the whole loop: a failed send ends the batch
nextAfterFailureAbort(b, i) == Len(b) + 1

\* the catch is inside the for-of body (lines 344-359): the loop goes on
nextAfterFailure(b, i) == i + 1

NotSent(S, offers) == SelectSeq(offers, LAMBDA o : makeUniqueKey(o) \notin S)

\* faulty variant: cap first, then filter
toSendAutoCapFirst(prioritized, S) == NotSent(S, slice(prioritized, OFFERS_PER_PUSH))

\* lines 393-398: filter by the ledger, then cap
toSendAuto(prioritized, S) == slice(NotSent(S, prioritized), OFFERS_PER_PUSH)

\* faulty variant: no cap
toSendPushAll(prioritized) == prioritized

\* line 372: cap only
toSendPush(prioritized) == slice(prioritized, OFFERS_PER_PUSH)

\* faulty variant: the list is walked from its end
offerAtBackwards(b, i) == b[Len(b) + 1 - i]

\* line 335: the offer the i-th iteration of `for (const offer of offers)` takes
offerAt(b, i) == b[i]

RECURSIVE NextPos(_, _, _)
\* first position from i on whose key is not in S (line 337), Len + 1 when none
NextPos(b, i, S) ==
  IF i > Len(b) THEN i
  ELSE IF makeUniqueKey(offerAt(b, i)) \in S THEN NextPos(b, i + 1, S)
  ELSE i

\* The for-of loop of pushOffersToTelegram from position i, run up to its next
\* await: skip the offers already in the ledger, mark the first other one and
\* start the write, or leave the loop.
LoopFrom(c, b, i, S) ==
  LET j == NextPos(b, i, S)
  IN /\ skipped' = [skipped EXCEPT ![c] = @ \cup (i..(j - 1))]
     /\ idx' = [idx EXCEPT ![c] = j]
     /\ IF j > Len(b)
        THEN /\ pc' = [pc EXCEPT ![c] = "done"]
             /\ sentOffers' = S
             /\ snap' = snap
        ELSE /\ pc' = [pc EXCEPT ![c] = "save"]
             /\ sentOffers' = markSent(S, makeUniqueKey(offerAt(b, j)))
             /\ snap' = [snap EXCEPT ![c] =
                           snapshotOf(markSent(S, makeUniqueKey(offerAt(b, j))))]

Running(c) == pc[c] \notin {"idle", "done"}

\* lines 374 and 399: the count a finished cycle reports, `toSend.length` in the
\* /push response and `offersToSend.length` in the AutoPush log
reportedSent(c) == Len(batch[c])

\* the ledger files a process can find at startup
InitialLedgers == { {}, {makeUniqueKey(SourcePages[1][2])} }

\* After `await loadSentOffers()` (line 409) and the startup call of
\* sendOffersToTelegram (line 410). The timer is armed at line 406, before the
\* load; its first tick comes PUSH_INTERVAL_MINUTES later, which is taken to be
\* after the read of the ledger file has returned.
SysInit ==
  /\ file \in InitialLedgers
  /\ sentOffers = file
  /\ started = 1
  /\ pc = [c \in Cycles |-> IF c = 1 THEN "fetch" ELSE "idle"]
  /\ kind = [c \in Cycles |-> "auto"]
  /\ batch = [c \in Cycles |-> <<>>]
  /\ idx = [c \in Cycles |-> 0]
  /\ snap = [c \in Cycles |-> {}]
  /\ attempts = [c \in Cycles |-> <<>>]
  /\ skipped = [c \in Cycles |-> {}]

\* setInterval fires: sendOffersToTelegram starts and awaits the fetch
TimerTick ==
  /\ started < MaxCycles
  /\ started' = started + 1
  /\ pc' = [pc EXCEPT ![started + 1] = "fetch"]
  /\ kind' = [kind EXCEPT ![started + 1] = "auto"]
  /\ UNCHANGED <<sentOffers, file, batch, idx, snap, attempts, skipped>>

\* GET /push arrives: the handler starts and awaits the fetch
PushRequest ==
  /\ started < MaxCycles
  /\ started' = started + 1
  /\ pc' = [pc EXCEPT ![started + 1] = "fetch"]
  /\ kind' = [kind EXCEPT ![started + 1] = "push"]
  /\ UNCHANGED <<sentOffers, file, batch, idx, snap, attempts, skipped>>

\* the fetch returns; prioritize, (filter,) cap, and enter pushOffersToTelegram
FetchDone(c, okPages) ==
  /\ pc[c] = "fetch"
  /\ \E prioritized \in prioritizeOffers(fetchOffersAllPages(okPages)) :
       LET b == IF kind[c] = "auto" THEN toSendAuto(prioritized, sentOffers)
                ELSE toSendPush(prioritized)
       IN /\ batch' = [batch EXCEPT ![c] = b]
          /\ LoopFrom(c, b, 1, sentOffers)
  /\ UNCHANGED <<file, kind, attempts, started>>

\* faulty variant: no try/catch in saveSentOffers, a write error ends the batch
pcAfterSaveAbort(ok) == IF ok THEN "format" ELSE "done"

\* lines 62-68: saveSentOffers catches the write error, logs it and returns;
\* line 342 comes next either way
pcAfterSave(ok) == "format"

\* writeFile settles (line 340 returns); a failure is logged and absorbed.
\* Writes of overlapping cycles land in the order they settle.
SaveDone(c, ok) ==
  /\ pc[c] = "save"
  /\ file' = IF ok THEN snap[c] ELSE file
  /\ pc' = [pc EXCEPT ![c] = pcAfterSave(ok)]
  /\ UNCHANGED <<sentOffers, kind, batch, idx, snap, attempts, skipped, started>>

\* formatOfferMessage returns and the bot is called (lines 342-355); the bot is
\* configured (with no token line 346 only logs the message)
CallChannel(c) ==
  /\ pc[c] = "format"
  /\ attempts' = [attempts EXCEPT ![c] =
        Append(@, [key |-> makeUniqueKey(offerAt(batch[c], idx[c])), res |-> "pending",
                   marked |-> makeUniqueKey(offerAt(batch[c], idx[c])) \in sentOffers,
                   written |-> makeUniqueKey(offerAt(batch[c], idx[c])) \in snap[c],
                   waited |-> FALSE])]
  /\ pc' = [pc EXCEPT ![c] = "send"]
  /\ UNCHANGED <<sentOffers, file, kind, batch, idx, snap, skipped, started>>

\* the send resolved: wait DELAY_BETWEEN_OFFERS_MS (line 356)
SendOk(c) ==
  /\ pc[c] = "send"
  /\ attempts' = [attempts EXCEPT ![c][Len(attempts[c])].res = "ok"]
  /\ pc' = [pc EXCEPT ![c] = "delay"]
  /\ UNCHANGED <<sentOffers, file, kind, batch, idx, snap, skipped, started>>

\* the send rejected: the catch logs and the loop goes on at once
SendFail(c) ==
  /\ pc[c] = "send"
  /\ attempts' = [attempts EXCEPT ![c][Len(attempts[c])].res = "fail"]
  /\ LoopFrom(c, batch[c], nextAfterFailure(batch[c], idx[c]),
              afterSendFailure(sentOffers, makeUniqueKey(offerAt(batch[c], idx[c]))))
  /\ UNCHANGED <<file, kind, batch, started>>

\* the delay timer fires: next iteration
DelayDone(c) ==
  /\ pc[c] = "delay"
  /\ attempts' = [attempts EXCEPT ![c][Len(attempts[c])].waited = TRUE]
  /\ LoopFrom(c, batch[c], idx[c] + 1, sentOffers)
  /\ UNCHANGED <<file, kind, batch, started>>

----------------------------------------------------------------------------
(* Crash and restart of the image-key variant *)

\* what the settling write of cycle c tells about the key it was started for
NoteWrite(c, ok) ==
  LET key == makeUniqueKey(offerAt(batch[c], idx[c]))
  IN /\ flushed' = IF ok /\ restart = "none" THEN flushed \cup {key} ELSE flushed
     /\ unflushed' = IF ~ok /\ restart = "none" THEN unflushed \cup {key} ELSE unflushed
     /\ lastWrite' = IF ok /\ restart = "none" THEN snap[c] ELSE lastWrite
     /\ UNCHANGED restart

\* The file a killed process leaves. fs.writeFile (line 64) opens the file with
\* flag "w", which truncates it, and then writes the text: a write in flight at
\* the kill leaves the old content, the new content, or the emptied file.
FilesAfterCrash ==
  {file} \cup UNION {{snap[c], {}} : c \in {x \in Cycles : pc[x] = "save"}}

\* loadSentOffers (lines 50-60): the Set of the array read; JSON.parse(data ||
\* "[]") makes an emptied file an empty ledger; a read error leaves an empty Set
loadSentOffers(content, readOk) == IF readOk THEN content ELSE {}

\* The process is killed at any point and started again: the module runs from
\* its top, loading the file (line 409) and starting the startup run (line 410).
\* The cycles of the killed process are gone with their local variables; the
\* attempts they made stay on record.
CrashRestart(readOk) ==
  /\ restart = "none"
  /\ started < MaxCycles
  /\ \E f \in FilesAfterCrash :
       /\ file' = f
       /\ sentOffers' = loadSentOffers(f, readOk)
  /\ restart' = IF readOk THEN "read" ELSE "unread"
  /\ started' = started + 1
  /\ pc' = [c \in Cycles |-> IF c <= started THEN "dead"
                              ELSE IF c = started + 1 THEN "fetch" ELSE "idle"]
  /\ kind' = [c \in Cycles |-> "auto"]
  /\ batch' = [c \in Cycles |-> <<>>]
  /\ idx' = [c \in Cycles |-> 0]
  /\ snap' = [c \in Cycles |-> {}]
  /\ skipped' = [c \in Cycles |-> {}]
  /\ UNCHANGED <<attempts, flushed, unflushed, lastWrite>>

----------------------------------------------------------------------------
(* The running process, price-ledger variant (lines 418-875).              *)
(* The same variables hold its state; the ledger variable sentOffers holds *)
(* the Map sentOffersMap, key -> last price (NoNumber for null), and the   *)
(* file holds the object written from it.                                  *)

sha256Hex(x) == <<"sha256", x>>

LowerAll(u) == [i \in 1..Len(u) |-> toLowerCase(u[i])]

\* lines 694-723
normalizeOfferKey(offer) ==
  LET rawCandidate ==
        IF Truthy(trim(offer.imageUrl)) THEN trim(offer.imageUrl)
        ELSE IF Truthy(trim(offer.offerLink)) THEN trim(offer.offerLink)
        ELSE trim(offer.productName) \o <<"::", offer.shopId>>
      \* .replace(/\?.*$/, "").replace(/#.*$/, "").trim().toLowerCase()
      cleaned == LowerAll(trim(cutAtQueryOrHash(rawCandidate)))
      \* new URL(cleaned): pathname without trailing slashes, else hostname
      path == IF cleaned # <<>> /\ Head(cleaned) \in Hosts
              THEN (IF Tail(cleaned) # <<>> THEN Tail(cleaned) ELSE <<Head(cleaned)>>)
              ELSE cleaned
  IN sha256Hex(path)

sentOffersMap == sentOffers

\* lines 758-759: the last price recorded for key, null when none
lastPriceOf(M, key) == IF key \in DOMAIN M THEN M[key] ELSE NoNumber

\* line 762: same offer and same price
samePrice(M, offer) ==
  LET lastPrice == lastPriceOf(M, normalizeOfferKey(offer))
      priceMin == parsePrice2(offer.priceMin)
  IN lastPrice.ok /\ priceMin.ok /\ lastPrice.val = priceMin.val

\* line 783: sentOffersMap.set(key, priceMin ?? null)
recordSent(M, offer) ==
  [k \in DOMAIN M \cup {normalizeOfferKey(offer)} |->
     IF k = normalizeOfferKey(offer) THEN parsePrice2(offer.priceMin) ELSE M[k]]

\* lines 808-822 and 843-857: filter by the ledger, then cap
toSend2(prioritized, M) ==
  slice(SelectSeq(prioritized, LAMBDA o : ~samePrice(M, o)), OFFERS_PER_PUSH)

\* the prices at which the source offers its first product
SourcePrices == {Price(50), Price(40)}

\* What the source holds: a product whose price may change between fetches, a
\* product whose price text does not parse, and a second listing of the first
\* product (the same image without the query string, another link, a price
\* text that does not parse).
SourcePages2(px) ==
  << << Offer(SofaName, <<"//h1", "a", "?", "x">>, <<"l1">>, "s1", <<>>, px, Price(100)) >>,
     << Offer(BFName, <<"//h1", "b">>, <<"l2">>, "s1", <<>>, BadPrice, Price(100)) >>,
     << Offer(SofaName, <<"//h1", "a">>, <<"l3">>, "s1", <<>>, BadPrice, Price(100)) >> >>

fetchOffersAllPages2(okPages, px) ==
  uniqByRawKey((IF 1 \in okPages THEN SourcePages2(px)[1] ELSE <<>>)
                 \o (IF 2 \in okPages THEN SourcePages2(px)[2] ELSE <<>>)
                 \o (IF 3 \in okPages THEN SourcePages2(px)[3] ELSE <<>>), {})

RECURSIVE NextPos2(_, _, _)
\* first position from i on that line 762 does not skip
NextPos2(b, i, M) ==
  IF i > Len(b) THEN i
  ELSE IF samePrice(M, b[i]) THEN NextPos2(b, i + 1, M)
  ELSE i

\* the for-of loop of lines 750-792 from position i up to its next await
LoopFrom2(c, b, i) ==
  LET j == NextPos2(b, i, sentOffersMap)
  IN /\ skipped' = [skipped EXCEPT ![c] = @ \cup (i..(j - 1))]
     /\ idx' = [idx EXCEPT ![c] = j]
     /\ pc' = [pc EXCEPT ![c] = IF j > Len(b) THEN "done" ELSE "format"]

SysInit2 ==
  /\ file = <<>>
  /\ sentOffers = file
  /\ started = 1
  /\ pc = [c \in Cycles |-> IF c = 1 THEN "fetch" ELSE "idle"]
  /\ kind = [c \in Cycles |-> "auto"]
  /\ batch = [c \in Cycles |-> <<>>]
  /\ idx = [c \in Cycles |-> 0]
  /\ snap = [c \in Cycles |-> <<>>]
  /\ attempts = [c \in Cycles |-> <<>>]
  /\ skipped = [c \in Cycles |-> {}]

\* the fetch returns; prioritize, filter, cap, and enter pushOffersToTelegram
FetchDone2(c, okPages, px) ==
  /\ pc[c] = "fetch"
  /\ LET b == toSend2(prioritizeOffers2(fetchOffersAllPages2(okPages, px)), sentOffersMap)
     IN /\ batch' = [batch EXCEPT ![c] = b]
        /\ LoopFrom2(c, b, 1)
  /\ UNCHANGED <<sentOffers, file, kind, snap, attempts, started>>

\* formatOfferMessage returns and the bot is called (lines 767-780)
CallChannel2(c) ==
  /\ pc[c] = "format"
  /\ LET offer == batch[c][idx[c]]
     IN attempts' = [attempts EXCEPT ![c] =
          Append(@, [key |-> normalizeOfferKey(offer), res |-> "pending",
                     price |-> parsePrice2(offer.priceMin),
                     had |-> normalizeOfferKey(offer) \in DOMAIN sentOffersMap,
                     last |-> lastPriceOf(sentOffersMap, normalizeOfferKey(offer))])]
  /\ pc' = [pc EXCEPT ![c] = "send"]
  /\ UNCHANGED <<sentOffers, file, kind, batch, idx, snap, skipped, started>>

\* the send resolved: record the key with its price and start the write
SendOk2(c) ==
  /\ pc[c] = "send"
  /\ attempts' = [attempts EXCEPT ![c][Len(attempts[c])].res = "ok"]
  /\ sentOffers' = recordSent(sentOffersMap, batch[c][idx[c]])
  /\ snap' = [snap EXCEPT ![c] = recordSent(sentOffersMap, batch[c][idx[c]])]
  /\ pc' = [pc EXCEPT ![c] = "save"]
  /\ UNCHANGED <<file, kind, batch, idx, skipped, started>>

\* faulty variant: the key is recorded although the send was rejected
afterSendFailureRecorded(M, offer) == recordSent(M, offer)

\* lines 788-790: the catch block only logs, the Map stays as it was
afterSendFailure2(M, offer) == M

\* the send rejected: nothing is recorded and the loop goes on
SendFail2(c) ==
  /\ pc[c] = "send"
  /\ attempts' = [attempts EXCEPT ![c][Len(attempts[c])].res = "fail"]
  /\ sentOffers' = afterSendFailure2(sentOffersMap, batch[c][idx[c]])
  /\ LoopFrom2(c, batch[c], idx[c] + 1)
  /\ UNCHANGED <<file, kind, batch, snap, started>>

\* writeFile settles (line 784 returns); then the delay of line 787
SaveDone2(c, ok) ==
  /\ pc[c] = "save"
  /\ file' = IF ok THEN snap[c] ELSE file
  /\ pc' = [pc EXCEPT ![c] = "delay"]
  /\ UNCHANGED <<sentOffers, kind, batch, idx, snap, attempts, skipped, started>>

DelayDone2(c) ==
  /\ pc[c] = "delay"
  /\ LoopFrom2(c, batch[c], idx[c] + 1)
  /\ UNCHANGED <<sentOffers, file, kind, batch, snap, attempts, started>>

----------------------------------------------------------------------------
(* The running process, server.js variant (autoSendOffers.js lines 53-262). *)
(* The same variables hold its state: sentOffers is sentSet, file is the    *)
(* array under "sent" of sent_offers.json.                                  *)

sentSet == sentOffers

\* characters that /[^a-z0-9\s]/g turns into a space
Punctuation == {"!", "?", "#"}

\* lines 148-153: lower-case, punctuation to spaces, runs of spaces to one, trim
normalize(name) ==
  trim(CollapseSpaces([i \in 1..Len(name) |->
         IF name[i] \in Punctuation THEN " " ELSE toLowerCase(name[i])]))

\* the words of REQUIRED_KEYWORDS and BLOCKED_KEYWORDS the modelled names meet
REQUIRED_KEYWORDS == {"sofa", "tv"}

BLOCKED_KEYWORDS == {"black", "capa"}

matchesRequired(name) == \E i \in 1..Len(normalize(name)) : normalize(name)[i] \in REQUIRED_KEYWORDS

matchesBlocked(name) == \E i \in 1..Len(normalize(name)) : normalize(name)[i] \in BLOCKED_KEYWORDS

\* What the source answers for the pages 1 and 2 of a keyword: two products, a
\* blocked one, and the first product again under a name with punctuation.
ServerPages ==
  << << Offer(SofaName, <<"a">>, <<"l1">>, "s1", <<>>, Price(50), Price(100)),
        Offer(BFName,   <<"b">>, <<"l2">>, "s1", <<>>, Price(50), Price(100)) >>,
     << Offer(<<"Sofa", " ", "x">>, <<"c">>, <<"l3">>, "s2", <<>>, Price(50), Price(100)),
        Offer(<<"Sofa", "!">>, <<"d">>, <<"l4">>, "s2", <<>>, Price(40), Price(100)) >> >>

\* lines 189-200: the nodes of the pages that answered; a failed page is skipped
fetchOffers(okPages) ==
  (IF 1 \in okPages THEN ServerPages[1] ELSE <<>>)
    \o (IF 2 \in okPages THEN ServerPages[2] ELSE <<>>)

RECURSIVE dedupeByName(_, _)
\* lines 242-246
dedupeByName(offers, seen) ==
  IF offers = <<>> THEN <<>>
  ELSE LET k == normalize(Head(offers).productName)
       IN IF k \in seen
          THEN dedupeByName(Tail(offers), seen)
          ELSE <<Head(offers)>> \o dedupeByName(Tail(offers), seen \cup {k})

\* lines 234-250: filter by keywords, dedupe by name, filter by the ledger, cap
cycleToSend(raw, S) ==
  LET filtered == SelectSeq(raw, LAMBDA o :
                     /\ Truthy(o.productName)
                     /\ matchesRequired(o.productName)
                     /\ ~matchesBlocked(o.productName))
  IN slice(SelectSeq(dedupeByName(filtered, {}),
                     LAMBDA o : normalize(o.productName) \notin S),
           OFFERS_PER_PUSH)

RECURSIVE SrvNextPos(_, _, _)
\* line 211: first position from i on whose key is not in S
SrvNextPos(b, i, S) ==
  IF i > Len(b) THEN i
  ELSE IF normalize(b[i].productName) \in S THEN SrvNextPos(b, i + 1, S)
  ELSE i

\* The loop of pushTelegram (lines 209-229) from position i up to its next
\* await. When the loop of the startup cycle ends, `await cycle()` (line 259)
\* returns and line 260 arms the interval.
SrvLoopFrom(c, b, i) ==
  LET j == SrvNextPos(b, i, sentSet)
  IN /\ skipped' = [skipped EXCEPT ![c] = @ \cup (i..(j - 1))]
     /\ idx' = [idx EXCEPT ![c] = j]
     /\ IF j > Len(b)
        THEN /\ pc' = [pc EXCEPT ![c] = "done"]
             /\ timer' = IF timer = "startup" THEN "armed" ELSE timer
             /\ UNCHANGED <<sentOffers, snap>>
        ELSE /\ pc' = [pc EXCEPT ![c] = "save"]
             /\ sentOffers' = sentSet \cup {normalize(b[j].productName)}
             /\ snap' = [snap EXCEPT ![c] = sentSet \cup {normalize(b[j].productName)}]
             /\ UNCHANGED timer

\* the files the server can find: none or empty, or one key recorded
InitialSent == { {}, {normalize(SofaName)} }

\* the app.listen callback (line 257) has started and awaits loadSent()
SrvInit ==
  /\ timer = "load"
  /\ file \in InitialSent
  /\ sentOffers = {}
  /\ started = 0
  /\ pc = [c \in Cycles |-> "idle"]
  /\ kind = [c \in Cycles |-> "auto"]
  /\ batch = [c \in Cycles |-> <<>>]
  /\ idx = [c \in Cycles |-> 0]
  /\ snap = [c \in Cycles |-> {}]
  /\ attempts = [c \in Cycles |-> <<>>]
  /\ skipped = [c \in Cycles |-> {}]

\* loadSent settles (lines 90-99). A read or parse error makes the catch write
\* an empty ledger; that write is not guarded, so its failure rejects loadSent
\* and with it the callback, before cycle() and setInterval are reached.
SrvLoadDone(readOk, writeOk) ==
  /\ timer = "load"
  /\ IF readOk \/ writeOk
     THEN /\ sentOffers' = IF readOk THEN file ELSE {}
          /\ file' = IF readOk THEN file ELSE {}
          /\ timer' = "startup"
          /\ started' = 1
          /\ pc' = [pc EXCEPT ![1] = "fetch"]
     ELSE /\ timer' = "dead"
          /\ UNCHANGED <<sentOffers, file, started, pc>>
  /\ UNCHANGED <<kind, batch, idx, snap, attempts, skipped>>

\* the interval fires (line 260): cycle() starts and awaits fetchOffers()
SrvTick ==
  /\ timer = "armed"
  /\ started < MaxCycles
  /\ started' = started + 1
  /\ pc' = [pc EXCEPT ![started + 1] = "fetch"]
  /\ UNCHANGED <<sentOffers, file, kind, batch, idx, snap, attempts, skipped, timer>>

\* fetchOffers returns (its catch swallows every page error); cycle() builds
\* toSend and enters pushTelegram
SrvFetchDone(c, okPages) ==
  /\ pc[c] = "fetch"
  /\ LET b == cycleToSend(fetchOffers(okPages), sentSet)
     IN /\ batch' = [batch EXCEPT ![c] = b]
        /\ SrvLoopFrom(c, b, 1)
  /\ UNCHANGED <<file, kind, attempts, started>>

\* saveSent settles (line 214). It has no try/catch and neither has its caller:
\* a write error rejects pushTelegram and cycle(). In the startup cycle that
\* rejects the callback before line 260, so the interval is never armed; in a
\* cycle started by the interval the rejection is unhandled, which ends the
\* process or not, depending on the runtime.
SrvSaveDone(c, ok, dies) ==
  /\ pc[c] = "save"
  /\ IF ok
     THEN /\ file' = snap[c]
          /\ pc' = [pc EXCEPT ![c] = "send"]
          /\ attempts' = [attempts EXCEPT ![c] =
                Append(@, [key |-> normalize(batch[c][idx[c]].productName),
                           res |-> "pending"])]
          /\ UNCHANGED timer
     ELSE /\ pc' = IF timer = "armed" /\ dies
                   THEN [x \in Cycles |-> IF pc[x] \in {"idle", "done"} THEN pc[x] ELSE "failed"]
                   ELSE [pc EXCEPT ![c] = "failed"]
          /\ timer' = IF timer = "startup" \/ dies THEN "dead" ELSE timer
          /\ UNCHANGED <<file, attempts>>
  /\ UNCHANGED <<sentOffers, kind, batch, idx, snap, skipped, started>>

\* the send resolved: wait DELAY_BETWEEN_OFFERS_MS (line 227)
SrvSendOk(c) ==
  /\ pc[c] = "send"
  /\ attempts' = [attempts EXCEPT ![c][Len(attempts[c])].res = "ok"]
  /\ pc' = [pc EXCEPT ![c] = "delay"]
  /\ UNCHANGED <<sentOffers, file, kind, batch, idx, snap, skipped, started, timer>>

\* the send rejected: `catch {}` (line 228), next iteration
SrvSendFail(c) ==
  /\ pc[c] = "send"
  /\ attempts' = [attempts EXCEPT ![c][Len(attempts[c])].res = "fail"]
  /\ SrvLoopFrom(c, batch[c], idx[c] + 1)
  /\ UNCHANGED <<file, kind, batch, started>>

SrvDelayDone(c) ==
  /\ pc[c] = "delay"
  /\ SrvLoopFrom(c, batch[c], idx[c] + 1)
  /\ UNCHANGED <<file, kind, batch, attempts, started>>

\* The price-ledger process is killed at any point and started again: the
\* module runs from its top, loading the file (line 870; JSON.parse(data ||
\* "{}"), a read error leaving an empty Map) and starting the startup run (line
\* 871). A writeFile in flight at the kill (line 486) leaves the old content, the
\* new content, or the emptied file. A number or null written by
\* JSON.stringify is read back as the same number or null.
CrashRestart2(readOk) ==
  /\ restart = "none"
  /\ started < MaxCycles
  /\ \E f \in {file} \cup UNION {{snap[c], <<>>} : c \in {x \in Cycles : pc[x] = "save"}} :
       /\ file' = f
       /\ sentOffers' = IF readOk THEN f ELSE <<>>
  /\ restart' = IF readOk THEN "read" ELSE "unread"
  /\ started' = started + 1
  /\ pc' = [c \in Cycles |-> IF c <= started THEN "dead"
                              ELSE IF c = started + 1 THEN "fetch" ELSE "idle"]
  /\ kind' = [c \in Cycles |-> "auto"]
  /\ batch' = [c \in Cycles |-> <<>>]
  /\ idx' = [c \in Cycles |-> 0]
  /\ snap' = [c \in Cycles |-> <<>>]
  /\ skipped' = [c \in Cycles |-> {}]
  /\ UNCHANGED <<attempts, flushed, unflushed, lastWrite>>

FnIdle ==
  /\ fn = "none"
  /\ inp = <<>>
  /\ out = <<>>

\* no write has settled, no crash has happened
HistIdle ==
  /\ flushed = {}
  /\ unflushed = {}
  /\ lastWrite = {}
  /\ restart = "none"

\* the variable of the server.js variant when another program is modelled
TimerIdle == timer = "none"

SysIdle ==
  /\ file = {}
  /\ sentOffers = {}
  /\ started = 0
  /\ pc = [c \in Cycles |-> "idle"]
  /\ kind = [c \in Cycles |-> "auto"]
  /\ batch = [c \in Cycles |-> <<>>]
  /\ idx = [c \in Cycles |-> 0]
  /\ snap = [c \in Cycles |-> {}]
  /\ attempts = [c \in Cycles |-> <<>>]
  /\ skipped = [c \in Cycles |-> {}]

----------------------------------------------------------------------------
(* The earliest variant (src/unnamed/part_000): no ledger, no prioritization. *)
(* The same variables hold its state; sentOffers, file, snap and skipped are   *)
(* not used.                                                                   *)

\* part_000 line 109
OFFERS_PER_PUSH_EARLY == 10

\* the attempt the loop body starts for offer i of batch b (lines 118-122)
EarlyAttempt(b, i) == [key |-> b[i].offerLink, res |-> "pending"]

\* fetchOffersPage(1) settles (lines 114 and 90; [] when the request failed,
\* lines 61-64); the list is capped (lines 115 and 90) and the loop sends its
\* first offer
EarlyFetchDone(c, ok) ==
  /\ pc[c] = "fetch"
  /\ LET offers == fetchOffersPage(1, IF ok THEN {1} ELSE {})
         offersToSend == slice(offers, OFFERS_PER_PUSH_EARLY)
     IN /\ batch' = [batch EXCEPT ![c] = offersToSend]
        /\ IF offersToSend = <<>>
           THEN /\ pc' = [pc EXCEPT ![c] = "done"]
                /\ UNCHANGED <<idx, attempts>>
           ELSE /\ pc' = [pc EXCEPT ![c] = "send"]
                /\ idx' = [idx EXCEPT ![c] = 1]
                /\ attempts' = [attempts EXCEPT ![c] = <<EarlyAttempt(offersToSend, 1)>>]
  /\ UNCHANGED <<sentOffers, file, kind, snap, skipped, started>>

\* bot.sendMessage resolved (line 122): wait DELAY_BETWEEN_OFFERS_MS (line 123)
EarlySendOk(c) ==
  /\ pc[c] = "send"
  /\ attempts' = [attempts EXCEPT ![c][Len(attempts[c])].res = "ok"]
  /\ pc' = [pc EXCEPT ![c] = "delay"]
  /\ UNCHANGED <<sentOffers, file, kind, batch, idx, snap, skipped, started>>

\* bot.sendMessage rejected: the await of line 122 throws out of the for loop
\* to the catch of line 127, which logs; the function returns
EarlySendFail(c) ==
  /\ pc[c] = "send"
  /\ attempts' = [attempts EXCEPT ![c][Len(attempts[c])].res = "fail"]
  /\ pc' = [pc EXCEPT ![c] = "done"]
  /\ UNCHANGED <<sentOffers, file, kind, batch, idx, snap, skipped, started>>

\* the delay timer fires: the next offer is sent, or the loop ends (line 126)
EarlyDelayDone(c) ==
  /\ pc[c] = "delay"
  /\ idx' = [idx EXCEPT ![c] = @ + 1]
  /\ IF idx[c] + 1 > Len(batch[c])
     THEN /\ pc' = [pc EXCEPT ![c] = "done"]
          /\ UNCHANGED attempts
     ELSE /\ pc' = [pc EXCEPT ![c] = "send"]
          /\ attempts' = [attempts EXCEPT ![c] = Append(@, EarlyAttempt(batch[c], idx[c] + 1))]
  /\ UNCHANGED <<sentOffers, file, kind, batch, snap, skipped, started>>

----------------------------------------------------------------------------
(* The standalone sender (autoSendOffers.js lines 1-51) *)

\* autoSendOffers.js line 32
offers_per_batch == 10

\* Line 30 declares `const offers`; line 33 assigns to it. Assigning to a
\* const binding throws a TypeError when the statement runs.
AssignToConstThrows == TRUE

\* fetchAndSendOffers (lines 27-45) once axios.get resolved with the list
\* `offers`: the offers for which sendOfferToTelegram is called, in call order.
\* The TypeError of line 33 is thrown inside the try and caught at line 42,
\* which logs; the for loop of lines 37-41 is not reached.
fetchAndSendOffers(offers) ==
  IF AssignToConstThrows THEN <<>> ELSE slice(offers, offers_per_batch)

ApplyFetchAndSend ==
  /\ fn = "none"
  /\ out' = fetchAndSendOffers(inp)
  /\ fn' = "fetchAndSendOffers"
  /\ UNCHANGED inp

----------------------------------------------------------------------------
(* The batch filter (src/unnamed/part_001): run() reads offers_store.json and *)
(* sent_offers.json and writes new_offers.json and sent_offers.json. A word   *)
(* written with an accent is the token of the plain word followed by "~".     *)

StoreOffer(productName, name, img, shop) ==
  [productName |-> productName, name |-> name, imageUrl |-> img, shopId |-> shop]

\* .normalize("NFD").replace(/[\u0300-\u036f]/g, "") on one word (lines 73-74)
stripDiacritics(t) == IF t = "sofa~" THEN "sofa" ELSE t

\* normalize of part_001 (lines 70-76): lower-case, accents removed, trim
normalizeNFD(text) ==
  trim([i \in 1..Len(text) |-> stripDiacritics(toLowerCase(text[i]))])

\* the words of REQUIRED_KEYWORDS (lines 15-49) the modelled names meet
REQUIRED_KEYWORDS_BATCH == {<<"sofa">>, <<"sofa~">>, <<"tv">>}

\* lines 79-82
hasRequiredKeyword(name) ==
  \E k \in REQUIRED_KEYWORDS_BATCH : \E i \in 1..Len(normalizeNFD(name)) :
    normalizeNFD(name)[i] = normalizeNFD(k)[1]

\* offer.productName || offer.name || "" (lines 86 and 107)
nameOf(offer) == IF Truthy(offer.productName) THEN offer.productName ELSE offer.name

\* lines 85-90: `${name}|${image}|${shop}`
productFingerprint(offer) == <<normalizeNFD(nameOf(offer)), offer.imageUrl, offer.shopId>>

RECURSIVE setFromList(_, _)
\* new Set(list) (line 102), as the list of its elements in insertion order
setFromList(list, acc) ==
  IF list = <<>> THEN acc
  ELSE setFromList(Tail(list), IF Head(list) \in Range(acc) THEN acc ELSE Append(acc, Head(list)))

RECURSIVE filterLoop(_, _, _)

\* faulty variant: the fingerprint of a new offer is not added to the set
filterLoopNoAdd(allOffers, sentSetList, newOffers) ==
  IF allOffers = <<>> THEN [newOffers |-> newOffers, sent |-> sentSetList]
  ELSE LET offer == Head(allOffers)
       IN IF ~hasRequiredKeyword(nameOf(offer))
          THEN filterLoop(Tail(allOffers), sentSetList, newOffers)
          ELSE IF productFingerprint(offer) \in Range(sentSetList)
          THEN filterLoop(Tail(allOffers), sentSetList, newOffers)
          ELSE filterLoop(Tail(allOffers), sentSetList, Append(newOffers, offer))

\* the for loop of lines 106-118
filterLoop(allOffers, sentSetList, newOffers) ==
  IF allOffers = <<>> THEN [newOffers |-> newOffers, sent |-> sentSetList]
  ELSE LET offer == Head(allOffers)
       IN IF ~hasRequiredKeyword(nameOf(offer))
          THEN filterLoop(Tail(allOffers), sentSetList, newOffers)
          ELSE IF productFingerprint(offer) \in Range(sentSetList)
          THEN filterLoop(Tail(allOffers), sentSetList, newOffers)
          ELSE filterLoop(Tail(allOffers), Append(sentSetList, productFingerprint(offer)),
                          Append(newOffers, offer))

\* faulty variant: the list read from the file is written back
sentToSavePrior(prior, sentSetList) == prior

\* line 121: saveSentOffers([...sentSet])
sentToSave(prior, sentSetList) == sentSetList

\* run (lines 92-124) on the files as they are: sentFile is the "sent" array
\* of sent_offers.json, which ensureSentFile creates empty when it is missing
\* (lines 54-58). The result says whether new_offers.json was written, what
\* was written there, and the "sent" array of sent_offers.json afterwards.
run(storeExists, allOffers, sentFile) ==
  LET sentOffersList == IF sentFile.exists THEN sentFile.sent ELSE <<>>
      r == filterLoop(allOffers, setFromList(sentOffersList, <<>>), <<>>)
  IN IF ~storeExists
     THEN [written |-> FALSE, newOffers |-> <<>>,
           sentFile |-> [exists |-> TRUE, sent |-> sentOffersList]]
     ELSE [written |-> TRUE, newOffers |-> r.newOffers,
           sentFile |-> [exists |-> TRUE, sent |-> sentToSave(sentOffersList, r.sent)]]

\* what offers_store.json may hold: three offers of one fingerprint (an accent,
\* capitals and spaces apart), the same product under another image text, an
\* offer with no required keyword, and an offer named by its `name` field
StorePool ==
  { StoreOffer(<<"Sofa~">>, <<>>, <<"a">>, "s1"),
    StoreOffer(<<"sofa">>, <<>>, <<"a">>, "s1"),
    StoreOffer(<<" ", "Sofa", " ">>, <<"x">>, <<"a">>, "s1"),
    StoreOffer(<<"Sofa">>, <<>>, <<"a", "?", "x">>, "s1"),
    StoreOffer(<<"x">>, <<"tv">>, <<"b">>, "s2"),
    StoreOffer(<<>>, <<"tv">>, <<"c">>, "" ) }

\* the sent lists the program leaves behind hold no fingerprint twice
PriorSentLists ==
  {l \in SeqsUpTo({productFingerprint(o) : o \in StorePool}, MaxSent) :
     \A i, j \in 1..Len(l) : i # j => l[i] # l[j]}

BatchInit ==
  /\ fn = "none"
  /\ inp \in [storeExists : BOOLEAN,
               store : SeqsUpTo(StorePool, MaxLen),
               sentFile : {[exists |-> FALSE, sent |-> <<>>]}
                            \cup {[exists |-> TRUE, sent |-> l] : l \in PriorSentLists}]
  /\ out = <<>>

\* node runs the script once (line 126)
ApplyRun ==
  /\ fn = "none"
  /\ out' = <<run(inp.storeExists, inp.store, inp.sentFile)>>
  /\ fn' = "run"
  /\ UNCHANGED inp

\* the script is run again on the unchanged offers_store.json
ApplyRunAgain ==
  /\ fn = "run"
  /\ out' = Append(out, run(inp.storeExists, inp.store, out[1].sentFile))
  /\ fn' = "run twice"
  /\ UNCHANGED inp

----------------------------------------------------------------------------
(* Specifications *)

\* the process with every interleaving of startup run, timer ticks and /push
Init == SysInit /\ FnIdle /\ HistIdle /\ TimerIdle

Next ==
  \/ TimerTick /\ UNCHANGED auxVars
  \/ PushRequest /\ UNCHANGED auxVars
  \/ \E c \in Cycles, okPages \in SUBSET pagesToCheck : FetchDone(c, okPages) /\ UNCHANGED auxVars
  \/ \E c \in Cycles, ok \in BOOLEAN : SaveDone(c, ok) /\ UNCHANGED auxVars
  \/ \E c \in Cycles : CallChannel(c) /\ UNCHANGED auxVars
  \/ \E c \in Cycles : SendOk(c) /\ UNCHANGED auxVars
  \/ \E c \in Cycles : SendFail(c) /\ UNCHANGED auxVars
  \/ \E c \in Cycles : DelayDone(c) /\ UNCHANGED auxVars

Spec == Init /\ [][Next]_vars

\* a fresh deployment whose source answers every fetch in full and whose timer
\* cycles do not overlap
SeqInit == SysInit /\ file = {} /\ FnIdle /\ HistIdle /\ TimerIdle

SeqNext ==
  \/ (\A c \in Cycles : ~Running(c)) /\ TimerTick /\ UNCHANGED auxVars
  \/ \E c \in Cycles : FetchDone(c, pagesToCheck) /\ UNCHANGED auxVars
  \/ \E c \in Cycles, ok \in BOOLEAN : SaveDone(c, ok) /\ UNCHANGED auxVars
  \/ \E c \in Cycles : CallChannel(c) /\ UNCHANGED auxVars
  \/ \E c \in Cycles : SendOk(c) /\ UNCHANGED auxVars
  \/ \E c \in Cycles : SendFail(c) /\ UNCHANGED auxVars
  \/ \E c \in Cycles : DelayDone(c) /\ UNCHANGED auxVars

SeqSpec == SeqInit /\ [][SeqNext]_vars

\* the price-ledger variant with cycles that do not overlap
LedgerSeqInit == SysInit2 /\ FnIdle /\ HistIdle /\ TimerIdle

LedgerSeqNext ==
  \/ (\A c \in Cycles : ~Running(c)) /\ TimerTick /\ UNCHANGED auxVars
  \/ (\A c \in Cycles : ~Running(c)) /\ PushRequest /\ UNCHANGED auxVars
  \/ \E c \in Cycles, okPages \in SUBSET pagesToCheck, px \in SourcePrices :
        FetchDone2(c, okPages, px) /\ UNCHANGED auxVars
  \/ \E c \in Cycles : CallChannel2(c) /\ UNCHANGED auxVars
  \/ \E c \in Cycles : SendOk2(c) /\ UNCHANGED auxVars
  \/ \E c \in Cycles : SendFail2(c) /\ UNCHANGED auxVars
  \/ \E c \in Cycles, ok \in BOOLEAN : SaveDone2(c, ok) /\ UNCHANGED auxVars
  \/ \E c \in Cycles : DelayDone2(c) /\ UNCHANGED auxVars

LedgerSeqSpec == LedgerSeqInit /\ [][LedgerSeqNext]_vars

\* the price-ledger variant with every interleaving of startup run, timer ticks
\* and /push requests
LedgerInit == SysInit2 /\ FnIdle /\ HistIdle /\ TimerIdle

LedgerNext ==
  \/ TimerTick /\ UNCHANGED auxVars
  \/ PushRequest /\ UNCHANGED auxVars
  \/ \E c \in Cycles, okPages \in SUBSET pagesToCheck, px \in SourcePrices :
        FetchDone2(c, okPages, px) /\ UNCHANGED auxVars
  \/ \E c \in Cycles : CallChannel2(c) /\ UNCHANGED auxVars
  \/ \E c \in Cycles : SendOk2(c) /\ UNCHANGED auxVars
  \/ \E c \in Cycles : SendFail2(c) /\ UNCHANGED auxVars
  \/ \E c \in Cycles, ok \in BOOLEAN : SaveDone2(c, ok) /\ UNCHANGED auxVars
  \/ \E c \in Cycles : DelayDone2(c) /\ UNCHANGED auxVars

LedgerSpec == LedgerInit /\ [][LedgerNext]_vars

\* the price-ledger variant with cycles that do not overlap, killed and
\* restarted at most once
LedgerCrashNext ==
  \/ (\A c \in Cycles : pc[c] \in {"idle", "done", "dead"}) /\ TimerTick /\ UNCHANGED auxVars
  \/ \E c \in Cycles, okPages \in SUBSET pagesToCheck, px \in SourcePrices :
        FetchDone2(c, okPages, px) /\ UNCHANGED auxVars
  \/ \E c \in Cycles : CallChannel2(c) /\ UNCHANGED auxVars
  \/ \E c \in Cycles : SendOk2(c) /\ UNCHANGED auxVars
  \/ \E c \in Cycles : SendFail2(c) /\ UNCHANGED auxVars
  \/ \E c \in Cycles, ok \in BOOLEAN : SaveDone2(c, ok) /\ UNCHANGED auxVars
  \/ \E c \in Cycles : DelayDone2(c) /\ UNCHANGED auxVars
  \/ \E readOk \in BOOLEAN : CrashRestart2(readOk) /\ UNCHANGED <<fnVars, timer>>

LedgerCrashSpec == LedgerInit /\ [][LedgerCrashNext]_vars

\* the image-key variant on a fresh deployment whose source answers every fetch
\* in full, killed and restarted at most once
CrashInit == SysInit /\ file = {} /\ FnIdle /\ HistIdle /\ TimerIdle

CrashNext ==
  \/ TimerTick /\ UNCHANGED auxVars
  \/ PushRequest /\ UNCHANGED auxVars
  \/ \E c \in Cycles : FetchDone(c, pagesToCheck) /\ UNCHANGED auxVars
  \/ \E c \in Cycles, ok \in BOOLEAN :
        SaveDone(c, ok) /\ NoteWrite(c, ok) /\ UNCHANGED <<fnVars, timer>>
  \/ \E c \in Cycles : CallChannel(c) /\ UNCHANGED auxVars
  \/ \E c \in Cycles : SendOk(c) /\ UNCHANGED auxVars
  \/ \E c \in Cycles : SendFail(c) /\ UNCHANGED auxVars
  \/ \E c \in Cycles : DelayDone(c) /\ UNCHANGED auxVars
  \/ \E readOk \in BOOLEAN : CrashRestart(readOk) /\ UNCHANGED <<fnVars, timer>>

CrashSpec == CrashInit /\ [][CrashNext]_vars

\* the server.js variant from the start of its app.listen callback
ServerInit == SrvInit /\ FnIdle /\ HistIdle

ServerNext ==
  \/ \E readOk, writeOk \in BOOLEAN : SrvLoadDone(readOk, writeOk) /\ UNCHANGED <<fnVars, histVars>>
  \/ SrvTick /\ UNCHANGED <<fnVars, histVars>>
  \/ \E c \in Cycles, okPages \in SUBSET {1, 2} : SrvFetchDone(c, okPages) /\ UNCHANGED <<fnVars, histVars>>
  \/ \E c \in Cycles, ok, dies \in BOOLEAN : SrvSaveDone(c, ok, dies) /\ UNCHANGED <<fnVars, histVars>>
  \/ \E c \in Cycles : SrvSendOk(c) /\ UNCHANGED <<fnVars, histVars>>
  \/ \E c \in Cycles : SrvSendFail(c) /\ UNCHANGED <<fnVars, histVars>>
  \/ \E c \in Cycles : SrvDelayDone(c) /\ UNCHANGED <<fnVars, histVars>>

ServerSpec == ServerInit /\ [][ServerNext]_vars

\* the earliest variant: the startup run (line 136), the timer runs (line 133)
\* and the GET /push requests (lines 88-105, the same loop), which may overlap
EarlyNext ==
  \/ TimerTick /\ UNCHANGED auxVars
  \/ PushRequest /\ UNCHANGED auxVars
  \/ \E c \in Cycles, ok \in BOOLEAN : EarlyFetchDone(c, ok) /\ UNCHANGED auxVars
  \/ \E c \in Cycles : EarlySendOk(c) /\ UNCHANGED auxVars
  \/ \E c \in Cycles : EarlySendFail(c) /\ UNCHANGED auxVars
  \/ \E c \in Cycles : EarlyDelayDone(c) /\ UNCHANGED auxVars

EarlySpec == SeqInit /\ [][EarlyNext]_vars

\* the batch filter on every store up to MaxLen and every prior sent list up
\* to MaxSent, run once or twice
BatchSpecInit == SysIdle /\ BatchInit /\ HistIdle /\ TimerIdle

BatchNext ==
  \/ ApplyRun /\ UNCHANGED <<sysVars, histVars, timer>>
  \/ ApplyRunAgain /\ UNCHANGED <<sysVars, histVars, timer>>

BatchSpec == BatchSpecInit /\ [][BatchNext]_vars

\* the pure functions on every input list up to MaxLen
PureInit == SysIdle /\ FnInit /\ HistIdle /\ TimerIdle

PureNext ==
  \/ ApplyPrioritize /\ UNCHANGED <<sysVars, histVars, timer>>
  \/ ApplyPrioritize2 /\ UNCHANGED <<sysVars, histVars, timer>>
  \/ ApplyFetch /\ UNCHANGED <<sysVars, histVars, timer>>
  \/ ApplyPrioritize2Again /\ UNCHANGED <<sysVars, histVars, timer>>
  \/ ApplyFetchAndSend /\ UNCHANGED <<sysVars, histVars, timer>>
  \/ ApplyPrioritizeSteps /\ UNCHANGED <<sysVars, histVars, timer>>

PureSpec == PureInit /\ [][PureNext]_vars

\* computeDiscountScore on one offer with any two price texts
\* computeDiscountScore of the price-ledger variant (lines 583-590)
ApplyScore2 ==
  /\ fn = "none"
  /\ out' = computeDiscountScore2(inp[1])
  /\ fn' = "computeDiscountScore2"
  /\ UNCHANGED inp

ScoreSpecInit == SysIdle /\ ScoreInit /\ HistIdle /\ TimerIdle

ScoreNext ==
  \/ ApplyScore /\ UNCHANGED <<sysVars, histVars, timer>>
  \/ ApplyScore2 /\ UNCHANGED <<sysVars, histVars, timer>>

ScoreSpec == ScoreSpecInit /\ [][ScoreNext]_vars

----------------------------------------------------------------------------
(* Properties *)

SourceOffers == Range(SourcePages[1]) \cup Range(SourcePages[2]) \cup Range(SourcePages[3])

SourceKeys == {makeUniqueKey(o) : o \in SourceOffers}

AttemptKeys(c) == {attempts[c][i].key : i \in 1..Len(attempts[c])}

\* how often cycle c called the channel for key k
TimesBy(c, k) == Cardinality({i \in 1..Len(attempts[c]) : attempts[c][i].key = k})

\* attempts for key k made by the cycles of C
RECURSIVE TimesIn(_, _)
TimesIn(C, k) ==
  IF C = {} THEN 0
  ELSE LET c == CHOOSE x \in C : TRUE IN TimesBy(c, k) + TimesIn(C \ {c}, k)

TimesAttempted(k) == TimesIn(Cycles, k)

RECURSIVE AttemptsOf(_)
\* number of attempts made by the cycles of C
AttemptsOf(C) ==
  IF C = {} THEN 0
  ELSE LET c == CHOOSE x \in C : TRUE IN Len(attempts[c]) + AttemptsOf(C \ {c})

Min(a, b) == IF a < b THEN a ELSE b

Keys(list) == {makeUniqueKey(list[i]) : i \in 1..Len(list)}

\* C1: in the image-key variant, whatever the interleaving of the startup run,
\* timer cycles and /push requests, the delivery channel is called at most once
\* for any key.
C1_AtMostOncePerKey == \A k \in SourceKeys : TimesAttempted(k) <= 1

\* two cycles in progress had the same offer in their batches; one called the
\* channel for it, the other skipped it in its loop
C1_Witness ==
  \E c1, c2 \in Cycles :
    /\ c1 # c2 /\ Running(c1) /\ Running(c2)
    /\ \E i \in skipped[c2] : makeUniqueKey(batch[c2][i]) \in AttemptKeys(c1)

\* the offers the source of the price-ledger variant can return
SourceOffers2 ==
  UNION {Range(SourcePages2(px)[1]) \cup Range(SourcePages2(px)[2]) : px \in SourcePrices}

\* the claim's rule: never recorded, or recorded with another price than the
\* parsed priceMin (a priceMin that does not parse being the price null)
NewOrPriceChanged(M, offer) ==
  \/ normalizeOfferKey(offer) \notin DOMAIN M
  \/ M[normalizeOfferKey(offer)] # parsePrice2(offer.priceMin)

\* C2: in the price-ledger variant an offer is eligible for delivery exactly
\* when its ledger key was never recorded or the recorded price differs from
\* its parsed priceMin; so no delivery attempt is made for an offer whose key is
\* recorded with the price the offer has now.
C2_EligibleIffNewOrPriceChanged ==
  /\ \A offer \in SourceOffers2 :
       ~samePrice(sentOffersMap, offer) <=> NewOrPriceChanged(sentOffersMap, offer)
  /\ \A c \in Cycles : \A i \in 1..Len(attempts[c]) :
       ~attempts[c][i].had \/ attempts[c][i].last # attempts[c][i].price

\* C3: the list returned by prioritizeOffers (image-key variant) holds no two
\* offers with the same makeUniqueKey value.
C3_NoDuplicateKeys ==
  fn = "prioritizeOffers" =>
    \A i, j \in 1..Len(out) : i # j => makeUniqueKey(out[i]) # makeUniqueKey(out[j])

\* the input held two different offers of one key (a query string apart)
C3_Witness ==
  /\ fn = "prioritizeOffers"
  /\ \E i, j \in 1..Len(inp) :
       /\ inp[i] # inp[j] /\ inp[i].imageUrl # inp[j].imageUrl
       /\ makeUniqueKey(inp[i]) = makeUniqueKey(inp[j])
  /\ Len(out) >= 2

\* the claim's four tiers: 1 campaign, 2 coupon, 3 discounted only, 4 plain
TierRank(off, score) ==
  IF isBlackFridayOffer(off) THEN 1
  ELSE IF hasCoupon(off) THEN 2
  ELSE IF Positive(score) THEN 3
  ELSE 4

RankIn(off) ==
  IF fn = "prioritizeOffers2" THEN TierRank(off, computeDiscountScore2(off))
  ELSE TierRank(off, computeDiscountScore(off))

\* C4: in the output of prioritizeOffers, shuffling or not, campaign offers come
\* before coupon offers, these before discounted-only offers, these before plain
\* offers, whatever the discount scores.
C4_TierOrder ==
  fn \in {"prioritizeOffers", "prioritizeOffers2"} =>
    \A i, j \in 1..Len(out) : i < j => RankIn(out[i]) <= RankIn(out[j])

\* a campaign offer of discount 0 stands before a coupon offer with a discount,
\* though the coupon offer came first in the input
C4_Witness ==
  /\ fn = "prioritizeOffers"
  /\ Len(out) >= 2 /\ Len(inp) >= 2
  /\ RankIn(out[1]) = 1 /\ ~Positive(computeDiscountScore(out[1]))
  /\ RankIn(out[2]) = 2 /\ Positive(computeDiscountScore(out[2]))
  /\ inp[1] = out[2]

\* C5: the output of prioritizeOffers is a permutation-with-removal of its input:
\* only input elements, none more often than in the input, as many as there are
\* distinct keys in the input.
C5_PermutationWithRemoval ==
  fn = "prioritizeOffers" =>
    /\ \A i \in 1..Len(out) : out[i] \in Range(inp) /\ Count(out, out[i]) <= Count(inp, out[i])
    /\ Len(out) = Cardinality(Keys(inp))

\* an input of three offers, two of them of one key, one of them plain
C5_Witness ==
  /\ fn = "prioritizeOffers"
  /\ Len(inp) = 3 /\ Len(out) = 2
  /\ \E i \in 1..Len(out) : isRest(out[i])

\* C6: at no time are two cycles in progress at once.
C6_OneCycleAtATime == Cardinality({c \in Cycles : Running(c)}) <= 1

\* C7: mark-then-send: when the channel is called for key k, k is in the
\* in-memory ledger and the write that has just returned carried k; after a
\* failed attempt k is still in the ledger.
C7_MarkThenSend ==
  \A c \in Cycles : \A i \in 1..Len(attempts[c]) :
    /\ attempts[c][i].marked
    /\ attempts[c][i].written
    /\ attempts[c][i].key \in sentOffers

\* an attempt failed and its cycle went on to the end of its batch
C7_Witness ==
  \E c \in Cycles :
    /\ pc[c] = "done"
    /\ \E i \in 1..Len(attempts[c]) : attempts[c][i].res = "fail"

\* C8: a failed delivery does not end the batch: when the cycle is over, every
\* offer of its batch that was not skipped as already in the ledger was attempted
\* exactly once, the failed ones included, and the skipped ones not at all.
C8_ContinueAfterFailure ==
  \A c \in Cycles :
    pc[c] = "done" =>
      \A i \in 1..Len(batch[c]) :
        IF i \in skipped[c]
        THEN TimesBy(c, makeUniqueKey(batch[c][i])) = 0
        ELSE TimesBy(c, makeUniqueKey(batch[c][i])) = 1

\* the first attempt of a batch failed and the second offer was attempted after it
C8_Witness ==
  \E c \in Cycles :
    /\ pc[c] = "done"
    /\ Len(attempts[c]) = 2
    /\ attempts[c][1].res = "fail"
    /\ attempts[c][1].key = makeUniqueKey(batch[c][1])
    /\ attempts[c][2].key = makeUniqueKey(batch[c][2])

NumSourceKeys == Cardinality(SourceKeys)

\* ceil(n / K)
CyclesNeeded == (NumSourceKeys + OFFERS_PER_PUSH - 1) \div OFFERS_PER_PUSH

\* C9: with the same n offers on every fetch and timer cycles that do not
\* overlap, a finished cycle has attempted min(K, offers never attempted before)
\* offers, no offer is attempted twice, and after ceil(n/K) cycles every offer
\* has been attempted exactly once.
C9_BatchesCoverSource ==
  /\ \A c \in Cycles :
       pc[c] = "done" =>
         Len(attempts[c]) = Min(OFFERS_PER_PUSH, NumSourceKeys - AttemptsOf(1..(c - 1)))
  /\ \A k \in SourceKeys : TimesAttempted(k) <= 1
  /\ (CyclesNeeded \in Cycles /\ pc[CyclesNeeded] = "done") =>
       \A k \in SourceKeys : TimesAttempted(k) = 1

\* the last needed cycle is over: the first attempted K offers, the second the rest
C9_Witness ==
  /\ pc[CyclesNeeded] = "done"
  /\ Len(attempts[1]) = OFFERS_PER_PUSH
  /\ Len(attempts[CyclesNeeded]) = NumSourceKeys - (CyclesNeeded - 1) * OFFERS_PER_PUSH
  /\ Len(attempts[CyclesNeeded]) > 0

\* C10: no cycle, timer-driven or /push, makes more than OFFERS_PER_PUSH
\* delivery attempts.
C10_AtMostKPerCycle == \A c \in Cycles : Len(attempts[c]) <= OFFERS_PER_PUSH

\* a /push request that fetched more than K offers stopped after K attempts
C10_Witness ==
  \E c \in Cycles :
    /\ kind[c] = "push" /\ pc[c] = "done"
    /\ Len(attempts[c]) = OFFERS_PER_PUSH
    /\ \E k \in SourceKeys : k \notin sentOffers

\* the n-th smallest element of a set of positions
RECURSIVE NthOf(_, _)
NthOf(P, n) ==
  LET m == CHOOSE x \in P : \A y \in P : x <= y
  IN IF n = 1 THEN m ELSE NthOf(P \ {m}, n - 1)

\* the positions of its batch that cycle c did not skip
Unskipped(c) == (1..Len(batch[c])) \ skipped[c]

\* C11: within one cycle of the image-key variant the delivery attempts follow
\* the order of the list handed to pushOffersToTelegram (the n-th attempt is for
\* the n-th offer not skipped), and an attempt starts only after the previous
\* attempt of the cycle has completed, succeeded or failed.
C11_InOrderOneAtATime ==
  \A c \in Cycles : \A n \in 1..Len(attempts[c]) :
    /\ n <= Cardinality(Unskipped(c))
    /\ attempts[c][n].key = makeUniqueKey(batch[c][NthOf(Unskipped(c), n)])
    /\ n < Len(attempts[c]) => attempts[c][n].res \in {"ok", "fail"}

\* a cycle whose batch holds two offers: the first attempt has failed, the
\* second is in flight
C11_Witness ==
  \E c \in Cycles :
    /\ Len(batch[c]) = 2 /\ skipped[c] = {}
    /\ makeUniqueKey(batch[c][1]) # makeUniqueKey(batch[c][2])
    /\ Len(attempts[c]) = 2
    /\ attempts[c][1].res = "fail" /\ attempts[c][2].res = "pending"

RECURSIVE PagesOf(_, _)
\* the offers of the requests of `fetches` that are not in `failed`, in order
PagesOf(fetches, failed) ==
  IF fetches = <<>> THEN <<>>
  ELSE (IF Head(fetches) \in failed THEN <<>>
        ELSE SourcePagesOf(Head(fetches)[1])[Head(fetches)[2]])
       \o PagesOf(Tail(fetches), failed)

\* C12: fetchOffersAllPages never fails: whatever subset of its (keyword, page)
\* requests fails, it issues every request, and it returns the offers of the
\* pages that answered, one per key, the first seen of each key, in the order
\* first seen; a failed page contributes nothing.
C12_AllPagesDespiteFailures ==
  fn = "fetchOffersAllPages" =>
    LET good == PagesOf(FetchesOf(Keywords), Range(inp))
    IN /\ out.issued = FetchesOf(Keywords)
       /\ out.offers = uniqByKey(good, {})
       /\ \A i \in 1..Len(out.offers) :
            \E j \in 1..Len(good) :
              /\ good[j] = out.offers[i]
              /\ \A h \in 1..(j - 1) : makeUniqueKey(good[h]) # makeUniqueKey(good[j])

\* the second request and a later one failed; the result holds an offer of the
\* last request, and of two offers with one key (on pages of different
\* keywords) only the one seen first
C12_Witness ==
  /\ fn = "fetchOffersAllPages"
  /\ Len(inp) = 2 /\ inp[1] = FetchesOf(Keywords)[2]
  /\ Len(out.issued) = Len(FetchesOf(Keywords))
  /\ SourcePagesOf(Keywords[2])[3][1] \in Range(out.offers)
  /\ SourcePages[1][2] \in Range(out.offers)
  /\ SourcePagesOf(Keywords[2])[1][1] \notin Range(out.offers)
  /\ SourcePagesOf(Keywords[2])[1][1] \in Range(PagesOf(FetchesOf(Keywords), Range(inp)))

\* C13: in the server.js variant no failure (source fetch, delivery, ledger
\* read, ledger write) stops the scheduler: the app.listen callback is on its
\* way to arm the interval, or the interval is armed and goes on ticking.
C13_SchedulerNeverStops == timer \in {"load", "startup", "armed"}

\* the cycles of the killed process, and the others
DeadCycles == {c \in Cycles : pc[c] = "dead"}

LiveCycles == Cycles \ DeadCycles

\* the restarted process has loaded the ledger and marked nothing yet
JustRestarted == restart = "read" /\ \A c \in LiveCycles : pc[c] \in {"idle", "fetch"}

\* C14: image-key variant, a crash at any point of a cycle followed by a restart
\* that reloads the ledger file: no key whose ledger write completed before the
\* crash is delivered after the restart, and at most one key of the reloaded
\* ledger has had no delivery attempt.
C14_CrashLosesAtMostInFlight ==
  restart = "read" =>
    /\ \A c \in LiveCycles : \A i \in 1..Len(attempts[c]) : attempts[c][i].key \notin flushed
    /\ JustRestarted => Cardinality({k \in sentOffers : TimesIn(DeadCycles, k) = 0}) <= 1

\* the key of the offer at position i of the batch of cycle c
KeyAt(c, i) == makeUniqueKey(offerAt(batch[c], i))

\* C19: ledger entries are never deleted. Within one process lifetime every key
\* that was once in the in-memory ledger (a key a cycle found there and skipped,
\* a key a cycle marked, a key whose write settled) is still in it; and after a
\* restart that read the ledger file successfully, every key of the last
\* completed write is in the ledger.
C19_LedgerOnlyGrows ==
  /\ \A c \in LiveCycles :
       /\ AttemptKeys(c) \subseteq sentOffers
       /\ \A i \in skipped[c] : KeyAt(c, i) \in sentOffers
       /\ pc[c] \in {"save", "format", "send", "delay"} => KeyAt(c, idx[c]) \in sentOffers
  /\ restart = "none" => (flushed \cup unflushed) \subseteq sentOffers
  /\ restart = "read" => lastWrite \subseteq sentOffers

\* C20: image-key variant, the ledger write for key k fails: the failure is
\* absorbed. k stays in the in-memory ledger, k is delivered and the rest of the
\* batch is gone through, and k is attempted at most once in a process
\* lifetime (a second attempt can only come from a restarted process).
C20_WriteFailureAbsorbed ==
  /\ restart = "none" => unflushed \subseteq sentOffers
  /\ \A k \in unflushed : TimesIn(DeadCycles, k) <= 1 /\ TimesIn(LiveCycles, k) <= 1
  /\ \A c \in LiveCycles :
       /\ \A i \in Unskipped(c) :
            (restart = "none" /\ KeyAt(c, i) \in unflushed /\ (i < idx[c] \/ pc[c] = "done"))
              => TimesBy(c, KeyAt(c, i)) = 1
       /\ pc[c] = "done" => \A i \in Unskipped(c) : TimesBy(c, KeyAt(c, i)) = 1

\* the write for the first key of a batch failed, the key was delivered and the
\* second offer of the batch attempted; the process was killed, and the
\* restarted process, which did not find the key in the file, delivered it again
C20_Witness ==
  /\ restart = "read"
  /\ \E c \in DeadCycles :
       /\ Len(attempts[c]) = 2
       /\ attempts[c][1].key \in unflushed /\ attempts[c][1].res = "ok"
       /\ TimesIn(DeadCycles, attempts[c][1].key) = 1
       /\ \E d \in LiveCycles : \E i \in 1..Len(attempts[d]) :
            attempts[d][i].key = attempts[c][1].key /\ attempts[d][i].res = "ok"

\* two offers that carry an imageUrl, equal once query string and fragment are
\* removed
SameImage(a, b) ==
  /\ Truthy(a.imageUrl) /\ Truthy(b.imageUrl)
  /\ cutAtQueryOrHash(a.imageUrl) = cutAtQueryOrHash(b.imageUrl)

\* of the offers of inp with the image of offer a, only the first is in out
OnlyFirstKept(a) ==
  LET first == CHOOSE h \in 1..Len(inp) :
                 /\ SameImage(inp[h], a)
                 /\ \A g \in 1..(h - 1) : ~SameImage(inp[g], a)
  IN /\ Cardinality({n \in 1..Len(out) : SameImage(out[n], a)}) = 1
     /\ \A n \in 1..Len(out) : SameImage(out[n], a) => out[n] = inp[first]

\* C15 as stated: for all offers A and B whose imageUrl values are equal after
\* removing query string and fragment, makeUniqueKey(A) = makeUniqueKey(B)
\* whatever their other fields, so prioritizeOffers (image-key variant) keeps
\* only the first of them.
C15_SameImageSameKey ==
  fn = "prioritizeOffers" =>
    \A i, j \in 1..Len(inp) :
      SameImage(inp[i], inp[j]) =>
        /\ makeUniqueKey(inp[i]) = makeUniqueKey(inp[j])
        /\ OnlyFirstKept(inp[i])

\* C15 amended: the same for offers whose imageUrl is not empty once query
\* string and fragment are removed (an imageUrl that is only a query string or a
\* fragment counts as no image, and the key comes from the link or the name).
C15_SameNonEmptyImageSameKey ==
  fn = "prioritizeOffers" =>
    \A i, j \in 1..Len(inp) :
      (SameImage(inp[i], inp[j]) /\ Truthy(cutAtQueryOrHash(inp[i].imageUrl))) =>
        /\ makeUniqueKey(inp[i]) = makeUniqueKey(inp[j])
        /\ OnlyFirstKept(inp[i])

\* the input held an offer and, later, another with the same image under a
\* query string and with another link, coupon and price; only the first is kept
C15_Witness ==
  /\ fn = "prioritizeOffers"
  /\ \E i, j \in 1..Len(inp) :
       /\ i < j
       /\ SameImage(inp[i], inp[j]) /\ Truthy(cutAtQueryOrHash(inp[i].imageUrl))
       /\ inp[i].imageUrl # inp[j].imageUrl
       /\ inp[i].offerLink # inp[j].offerLink
       /\ inp[i].priceMin # inp[j].priceMin
       /\ inp[i] \in Range(out) /\ inp[j] \notin Range(out)

\* an offer with no name, no link and no image
Unidentifiable(o) == ~Truthy(o.productName) /\ ~Truthy(o.offerLink) /\ ~Truthy(o.imageUrl)

\* C16: an offer with no name, no link and no image is discarded before
\* ranking: it never appears in the output of prioritizeOffers (either variant),
\* so it is never handed to the delivery channel.
C16_UnidentifiableDropped ==
  fn \in {"prioritizeOffers", "prioritizeOffers2"} =>
    \A n \in 1..Len(out) : ~Unidentifiable(out[n])

\* s1 = s2, as numbers
SameScore(s1, s2) == s1.n * s2.d = s2.n * s1.d

\* C17: for an offer whose priceMin and priceMax both parse (bounded integers,
\* 0 included) computeDiscountScore returns (max - min) / max * 100 when
\* max > min and 0 otherwise; a missing or zero priceMax gives 0.
C17_ScoreFormula ==
  fn = "computeDiscountScore" =>
    LET max == parsePrice(inp[1].priceMax)
        min == parsePrice(inp[1].priceMin)
    IN /\ (max.ok /\ min.ok) =>
            SameScore(out, IF max.val > min.val
                           THEN Score((max.val - min.val) * 100, max.val)
                           ELSE Zero)
       /\ (~max.ok \/ max.val = 0) => SameScore(out, Zero)

\* C18: prioritizeOffers of the non-shuffling variant is idempotent: applied to
\* its own result it returns the same list, in the same order, with the same
\* tier for every position.
C18_Idempotent ==
  fn = "prioritizeOffers2 twice" =>
    /\ out[2] = out[1]
    /\ \A n \in 1..Len(out[1]) :
         TierRank(out[2][n], computeDiscountScore2(out[2][n]))
           = TierRank(out[1][n], computeDiscountScore2(out[1][n]))

\* the first application reordered a list of three that holds two coupon offers
\* of equal score and an offer of another tier
C18_Witness ==
  /\ fn = "prioritizeOffers2 twice"
  /\ Len(inp) = 3 /\ Len(out[1]) = 3 /\ out[1] # inp
  /\ \E i, j \in 1..3 :
       /\ i # j
       /\ hasCoupon(out[1][i]) /\ hasCoupon(out[1][j])
       /\ ~isBlackFridayOffer(out[1][i]) /\ ~isBlackFridayOffer(out[1][j])
       /\ SameScore(computeDiscountScore2(out[1][i]), computeDiscountScore2(out[1][j]))
  /\ \E n \in 1..3 : TierRank(out[1][n], computeDiscountScore2(out[1][n])) = 4

\* number of attempts of cycle c that the channel accepted
Delivered(c) == Cardinality({i \in 1..Len(attempts[c]) : attempts[c][i].res = "ok"})

\* C21: the count a cycle reports (the `sent` field of the GET /push response,
\* the number logged by AutoPush) equals the number of offers delivered
\* successfully to the channel during that cycle.
C21_ReportedCountIsDelivered ==
  \A c \in Cycles : pc[c] = "done" => reportedSent(c) = Delivered(c)

\* the successful deliveries: pairs of a cycle and a position in its attempts
Deliveries ==
  UNION {{<<c, i>> : i \in {j \in 1..Len(attempts[c]) : attempts[c][j].res = "ok"}} :
           c \in Cycles}

\* C22: price-ledger variant (send, then record), every interleaving of timer
\* cycles and GET /push requests: an offer whose key and parsed priceMin do not
\* change is delivered at most once; two overlapping cycles never both deliver
\* the same offer at the same price.
C22_OncePerKeyAndPrice ==
  \A d1, d2 \in Deliveries :
    LET a1 == attempts[d1[1]][d1[2]]
        a2 == attempts[d2[1]][d2[2]]
    IN (a1.key = a2.key /\ a1.price.ok /\ a1.price = a2.price) => d1 = d2

\* C23: price-ledger variant, a crash at any point of a cycle followed by a
\* restart that reloads the ledger file: an offer delivered before the crash
\* whose price has not changed is not delivered again after the restart.
C23_DeliveredOnceAcrossRestart ==
  restart = "read" =>
    \A d \in DeadCycles, c \in LiveCycles :
      \A j \in 1..Len(attempts[d]), i \in 1..Len(attempts[c]) :
        ~(/\ attempts[d][j].res = "ok" /\ attempts[c][i].res = "ok"
          /\ attempts[d][j].key = attempts[c][i].key
          /\ attempts[d][j].price.ok
          /\ attempts[d][j].price = attempts[c][i].price)

\* the step in which the send of cycle c for its current offer is rejected
SendRejected2(c) ==
  /\ pc[c] = "send"
  /\ attempts'[c] = [attempts[c] EXCEPT ![Len(attempts[c])].res = "fail"]

\* C24: price-ledger variant, a failed delivery leaves the ledger unchanged:
\* neither the in-memory map nor the ledger file is modified, the remaining
\* offers of the batch are still processed, and the offer stays eligible for
\* the next cycle.
C24_FailureLeavesLedger ==
  [][\A c \in Cycles : SendRejected2(c) =>
        /\ sentOffers' = sentOffers
        /\ file' = file
        /\ idx'[c] = NextPos2(batch[c], idx[c] + 1, sentOffers)
        /\ pc'[c] = IF idx'[c] > Len(batch[c]) THEN "done" ELSE "format"
        /\ ~samePrice(sentOffers', batch[c][idx[c]])]_vars

\* a rejected first offer is absent from the ledger, the second offer of the
\* batch was attempted after it, and the next cycle attempted the first again
C24_Witness ==
  /\ Len(attempts[1]) = 2 /\ Len(attempts[2]) >= 1
  /\ attempts[1][1].res = "fail"
  /\ attempts[1][1].key \notin DOMAIN sentOffers
  /\ attempts[2][1].key = attempts[1][1].key
  /\ attempts[2][1].price = attempts[1][1].price

\* C25: image-key variant, the inter-item delay elapses between any two
\* consecutive delivery attempts of a cycle: after an attempt for one offer,
\* successful or failed, the attempt for the next offer of the batch starts
\* only after a wait of DELAY_BETWEEN_OFFERS_MS has completed.
C25_DelayBetweenAttempts ==
  \A c \in Cycles : \A i \in 1..Len(attempts[c]) :
    i < Len(attempts[c]) => attempts[c][i].waited

\* C26: GET /push of the image-key variant applies the ledger filter before
\* the batch cap: with e offers of the prioritized list not yet in the ledger,
\* the request attempts delivery of min(OFFERS_PER_PUSH, e) offers, the first
\* ones of the prioritized list that are not in the ledger.
C26_PushFiltersBeforeCap ==
  [][\A c \in Cycles, okPages \in SUBSET pagesToCheck :
       (kind[c] = "push" /\ FetchDone(c, okPages)) =>
         \A prioritized \in prioritizeOffers(fetchOffersAllPages(okPages)) :
           batch'[c] = toSendPush(prioritized) =>
             NotSent(sentOffers, batch'[c])
               = slice(NotSent(sentOffers, prioritized), OFFERS_PER_PUSH)]_vars

\* C27: write-through persistence: at every moment when no cycle and no /push
\* request is in progress and no ledger write has failed, the content of the
\* ledger file equals the in-memory ledger, also after cycles that overlapped
\* and issued concurrent whole-snapshot writes whose completions may be
\* reordered.
C27_FileEqualsLedgerWhenQuiet ==
  (restart = "none" /\ unflushed = {} /\ \A c \in Cycles : ~Running(c))
    => file = sentOffers

\* position of the first occurrence of offer o in the input
FirstAt(o) ==
  CHOOSE h \in 1..Len(inp) : inp[h] = o /\ \A g \in 1..(h - 1) : inp[g] # o

\* C28: non-shuffling variant, within each tier of the output of
\* prioritizeOffers the offers are in non-increasing discountScore order, and
\* two offers of one tier with equal discountScore keep the relative order they
\* had in the input.
C28_SortedStableInTiers ==
  fn = "prioritizeOffers2" =>
    \A i, j \in 1..Len(out) :
      (i < j /\ RankIn(out[i]) = RankIn(out[j])) =>
        /\ ~GreaterScore(computeDiscountScore2(out[j]), computeDiscountScore2(out[i]))
        /\ SameScore(computeDiscountScore2(out[i]), computeDiscountScore2(out[j]))
             => FirstAt(out[i]) < FirstAt(out[j])

\* the identity key of the variant that was applied
KeyIn(o) == IF fn = "prioritizeOffers2" THEN rawKey(o) ELSE makeUniqueKey(o)

\* C29: deduplication in prioritizeOffers is first-seen-wins: for every
\* identity key occurring in the input, the output contains exactly the first
\* input offer carrying that key and none of the later ones.
C29_FirstSeenWins ==
  fn \in {"prioritizeOffers", "prioritizeOffers2"} =>
    \A h \in 1..Len(inp) :
      LET first == CHOOSE f \in 1..h :
                     /\ KeyIn(inp[f]) = KeyIn(inp[h])
                     /\ \A g \in 1..(f - 1) : KeyIn(inp[g]) # KeyIn(inp[h])
      IN /\ Cardinality({n \in 1..Len(out) : KeyIn(out[n]) = KeyIn(inp[h])}) = 1
         /\ \A n \in 1..Len(out) : KeyIn(out[n]) = KeyIn(inp[h]) => out[n] = inp[first]

\* the input held two different offers of one key, and the output holds the
\* earlier one and not the later one
C29_Witness ==
  /\ fn = "prioritizeOffers2"
  /\ \E i, j \in 1..Len(inp) :
       /\ i < j /\ inp[i] # inp[j] /\ rawKey(inp[i]) = rawKey(inp[j])
       /\ \A g \in 1..(i - 1) : rawKey(inp[g]) # rawKey(inp[i])
       /\ inp[i] \in Range(out) /\ inp[j] \notin Range(out)

\* C30: price-ledger variant, for every pair of priceMin and priceMax values
\* that parsePrice accepts (bounded integers, also written with a minus sign)
\* computeDiscountScore returns a value v with 0 <= v < 100.
C30_ScoreInRange ==
  (/\ fn = "computeDiscountScore2"
   /\ parsePrice2(inp[1].priceMin).ok /\ parsePrice2(inp[1].priceMax).ok)
    => (out.n >= 0 /\ out.n < 100 * out.d)

\* the text of a URL before its query string
beforeQuery(u) ==
  LET qIdx == IndexOf(u, "?", 1)
  IN IF qIdx = 0 THEN u ELSE SubSeq(u, 1, qIdx - 1)

\* two offers whose imageUrl and whose offerLink are equal up to a query string
SameUpToQuery(a, b) ==
  /\ Truthy(beforeQuery(a.imageUrl)) /\ beforeQuery(a.imageUrl) = beforeQuery(b.imageUrl)
  /\ Truthy(beforeQuery(a.offerLink)) /\ beforeQuery(a.offerLink) = beforeQuery(b.offerLink)

\* C31: price-ledger variant, two offers that share the same image URL up to
\* a query parameter, and whose offerLink values differ only in tracking query
\* parameters, collapse to one entry in the output of prioritizeOffers.
C31_CollapseUpToQuery ==
  fn = "prioritizeOffers2" =>
    \A i, j \in 1..Len(out) : i # j => ~SameUpToQuery(out[i], out[j])

\* C32: earliest variant, when sending one offer of the AutoPush batch fails,
\* the cycle continues to the next item: every later offer of the batch is
\* still sent.
C32_LaterOffersStillSent ==
  \A c \in Cycles :
    (pc[c] = "done" /\ \E i \in 1..Len(attempts[c]) : attempts[c][i].res = "fail")
      => \A n \in 1..Len(batch[c]) :
           \E i \in 1..Len(attempts[c]) : attempts[c][i].key = batch[c][n].offerLink

\* C33: standalone sender, each run of fetchAndSendOffers that fetches n
\* offers calls sendOfferToTelegram for exactly the first min(n, 10) offers, in
\* list order, one after the other.
C33_FirstTenInOrder ==
  fn = "fetchAndSendOffers" => out = Take(inp, Min(Len(inp), offers_per_batch))

\* C34: price-ledger variant, within one cycle no two delivery attempts are
\* made for offers that have the same ledger key (normalizeOfferKey), also when
\* the two offers have different keys under the raw key used by
\* prioritizeOffers and different or unparseable priceMin values.
C34_OneAttemptPerLedgerKey ==
  \A c \in Cycles : \A i, j \in 1..Len(attempts[c]) :
    i # j => attempts[c][i].key # attempts[c][j].key

\* the list prioritizeOffers returns when every shuffle leaves its tier in the
\* order it was given
NoShuffle(offers) ==
  LET uniq == uniqByKey(offers, {})
  IN finalDedupe(sortDescByScore(SelectSeq(uniq, isBf))
                   \o sortDescByScore(SelectSeq(uniq, isCoupon))
                   \o sortDescByScore(SelectSeq(uniq, isWithDiscount))
                   \o SelectSeq(uniq, isRest), {})

\* C35: shuffling variant, the random choices of shuffleArray affect only the
\* order inside a tier: for every input list and every two outcomes of the
\* random choices, prioritizeOffers returns the same set of offers and the same
\* tier boundaries (the same number of campaign, coupon, discounted and plain
\* offers at the same position ranges).
\* Every outcome is compared with the outcome of the random choices that leave
\* each tier as it was (NoShuffle); two outcomes that agree with it agree with
\* each other.
C35_ShuffleOnlyReordersInTier ==
  fn = "prioritizeOffers" =>
    /\ Range(out) = Range(NoShuffle(inp))
    /\ Len(out) = Len(NoShuffle(inp))
    /\ \A n \in 1..Len(out) : RankIn(out[n]) = RankIn(NoShuffle(inp)[n])

\* an outcome that differs from the unshuffled one: two offers of one tier are
\* swapped
C35_Witness ==
  /\ fn = "prioritizeOffers"
  /\ Len(out) = 3
  /\ \E n \in 1..2 :
       /\ NoShuffle(inp)[n] = out[n + 1] /\ NoShuffle(inp)[n + 1] = out[n]
       /\ out[n] # out[n + 1]

\* the fingerprints of a list of offers, in list order
Fingerprints(list) == [i \in 1..Len(list) |-> productFingerprint(list[i])]

\* the sent list run() found: the file's array, or the empty one it created
PriorSent == IF inp.sentFile.exists THEN inp.sentFile.sent ELSE <<>>

\* C36: after run() of the batch filter on any offers_store and any prior sent
\* list, the offers written to new_offers.json have pairwise distinct
\* fingerprints, each contains a required keyword in its name, none has a
\* fingerprint that was in the prior sent list, and the new sent list equals
\* the prior sent list plus exactly the fingerprints of the offers written.
C36_RunPostcondition ==
  (fn = "run" /\ out[1].written) =>
    LET new == out[1].newOffers
    IN /\ \A i, j \in 1..Len(new) :
            i # j => productFingerprint(new[i]) # productFingerprint(new[j])
       /\ \A i \in 1..Len(new) :
            \E k \in REQUIRED_KEYWORDS_BATCH : \E n \in 1..Len(normalizeNFD(nameOf(new[i]))) :
              normalizeNFD(nameOf(new[i]))[n] = normalizeNFD(k)[1]
       /\ \A i \in 1..Len(new) : productFingerprint(new[i]) \notin Range(PriorSent)
       /\ out[1].sentFile.sent = PriorSent \o Fingerprints(new)

\* the store held two different offers of one fingerprint and an offer whose
\* fingerprint was already sent; one offer was written
C36_Witness ==
  /\ fn = "run" /\ out[1].written
  /\ Len(inp.store) = 3 /\ Len(out[1].newOffers) = 1
  /\ \E i, j \in 1..3 :
       /\ i # j /\ inp.store[i] # inp.store[j]
       /\ productFingerprint(inp.store[i]) = productFingerprint(inp.store[j])
       /\ inp.store[i] \in Range(out[1].newOffers)
  /\ \E i \in 1..3 : productFingerprint(inp.store[i]) \in Range(PriorSent)

\* C37: run() of the batch filter is idempotent on the sent list: running it
\* twice on an unchanged offers_store leaves the sent list after the second run
\* equal to the one after the first run, and the second run writes an empty
\* new_offers.json.
C37_RunTwice ==
  (fn = "run twice" /\ inp.storeExists) =>
    /\ out[2].sentFile = out[1].sentFile
    /\ out[2].written /\ out[2].newOffers = <<>>

\* the first run wrote two offers and extended a sent list that was not empty
C37_Witness ==
  /\ fn = "run twice" /\ inp.storeExists
  /\ Len(out[1].newOffers) = 2
  /\ PriorSent # <<>>
  /\ Len(out[2].sentFile.sent) = Len(PriorSent) + 2

\* C38: the final dedupe pass of prioritizeOffers is a no-op: for every input
\* list, the concatenated list `ordered` built from the four tiers never
\* contains two offers with the same identity key, so the returned list equals
\* `ordered` element for element.
C38_FinalDedupeNoOp ==
  fn = "prioritizeOffers steps" =>
    /\ \A i, j \in 1..Len(out.ordered) :
         i # j => makeUniqueKey(out.ordered[i]) # makeUniqueKey(out.ordered[j])
    /\ out.final = out.ordered

\* the input held one key twice, in two different offers, and three offers
C38_Witness ==
  /\ fn = "prioritizeOffers steps"
  /\ Len(inp) = 3 /\ Len(out.final) = 2
  /\ \E i, j \in 1..3 :
       i # j /\ inp[i] # inp[j] /\ makeUniqueKey(inp[i]) = makeUniqueKey(inp[j])

====
